---- MODULE Spec2Model ----
(***************************************************************************)
(* Model of the anonymization engine of bioreport-worker                   *)
(* (src/app/anonymization/anonymizer.py).                                  *)
(*                                                                         *)
(* A text is a sequence of characters; a character is a string naming one  *)
(* code point ("a", " ", "U+00E1").  Indices are 0-based as in the Python  *)
(* source: position i of a text s is s[i + 1] here.                        *)
(***************************************************************************)
EXTENDS Integers, Sequences, FiniteSets, TLC

VARIABLES
    text,             \* anonymize(text, ...): the input text
    sensitive_words,  \* anonymize(..., sensitive_words): None or a list of raw words
    transliterator,   \* self._transliterator: the transliteration capability
    pc,               \* position inside anonymize / _run
    normalized,       \* _run: normalized
    transliterated,   \* _run: transliterated
    trans_to_orig,    \* _run: trans_to_orig
    detections,       \* _run: detections
    original_spans,   \* _run: original_spans
    result,           \* the AnonymizationResult returned, or NoResult
    raised,           \* the exception that left anonymize, or NoError
    trace             \* bookkeeping: what the call invoked, the branch it took, the
                      \* exception raised inside, where each output character came from

VARIABLES
    faults,             \* Processor.process: the collaborator calls that raise when made
    ppc,                \* position inside Processor.process
    calls,              \* bookkeeping: the collaborator calls process has made, in order
    process_raised,     \* the exception that left process, or NoError
    uploaded_documents  \* the row of the document: which result columns are written

VARIABLES
    pdf_jobs,   \* the table pdf_jobs: one row per job id, with the holder of its row lock
    workers,    \* every worker's position in Worker.run / JobRunner.run and its locals
    settings,   \* Settings: max_job_attempts
    processor,  \* JobRunner._processor: the Processor, or a test double
    history     \* bookkeeping: what happened to each job, in order

anonymizer_vars == <<text, sensitive_words, transliterator, pc, normalized, transliterated,
                     trans_to_orig, detections, original_spans, result, raised, trace>>

processor_vars == <<faults, ppc, calls, process_raised, uploaded_documents>>

worker_vars == <<pdf_jobs, workers, settings, processor, history>>

vars == <<anonymizer_vars, processor_vars, worker_vars>>

----------------------------------------------------------------------------
(* Bounds of the model.                                                    *)

\* longest text, in words of WordLexicon, of the word-built input family
MaxWords == 3
\* longest text, in characters, of the free input family
MaxLen == 3
\* longest text, in characters, given to an arbitrary transliteration capability
MaxCapLen == 2

----------------------------------------------------------------------------
(* Python sequence primitives.                                             *)

Min(a, b) == IF a < b THEN a ELSE b
Max(a, b) == IF a > b THEN a ELSE b

\* s[i:j] for 0 <= i, 0 <= j
Slice(s, i, j) == SubSeq(s, Min(i, Len(s)) + 1, Min(j, Len(s)))

\* [v] * n
Repeat(v, n) == [k \in 1..n |-> v]

RECURSIVE Concat(_)
\* "".join(parts)
Concat(parts) ==
    IF parts = <<>> THEN <<>> ELSE Head(parts) \o Concat(Tail(parts))

\* list(reversed(s))
Reverse(s) == [k \in 1..Len(s) |-> s[Len(s) + 1 - k]]

RECURSIVE Find(_, _, _)
\* s.find(sub, start): the lowest index >= start where sub occurs, or -1
Find(s, sub, start) ==
    IF start + Len(sub) > Len(s) THEN -1
    ELSE IF Slice(s, start, start + Len(sub)) = sub THEN start
    ELSE Find(s, sub, start + 1)

----------------------------------------------------------------------------
(* Character classes of str and re (Unicode semantics of Python 3).        *)

AsciiLower == {"a", "b", "c", "s"}
AsciiUpper == {"A", "P", "E", "R", "S", "O", "N", "M", "I", "L", "H", "D"}
Digits     == {"0", "1", "2", "3", "4", "5", "6", "7", "8", "9"}
\* U+00E1 a-acute, U+00C1 A-acute, U+0107 c-acute, U+015B s-acute,
\* U+0429 / U+0449 Cyrillic shcha, U+0301 combining acute
OtherLetters == {"U+00E1", "U+00C1", "U+0107", "U+015B", "U+0429", "U+0449"}
CombiningMark == "U+0301"

\* str.isalnum() of one character
Alnum == AsciiLower \cup AsciiUpper \cup Digits \cup OtherLetters
IsAlnum(ch) == ch \in Alnum
\* \w of a str pattern
WordChars == Alnum \cup {"_"}
IsWord(ch) == ch \in WordChars
\* \d
IsDigit(ch) == ch \in Digits
\* \s, and the characters str.strip() and str.split() treat as whitespace
Whitespace == {" ", "\n"}
IsSpace(ch) == ch \in Whitespace

\* str.lower() of one character
LowerChar(ch) ==
    CASE ch = "A" -> "a"
      [] ch = "U+00C1" -> "U+00E1"
      [] ch = "U+0429" -> "U+0449"
      [] ch \in AsciiUpper -> ch   \* placeholder letters never occur in an input text
      [] OTHER -> ch

\* str.lower()
Lower(s) == [k \in 1..Len(s) |-> LowerChar(s[k])]

RECURSIVE LStrip(_)
LStrip(s) == IF s # <<>> /\ IsSpace(Head(s)) THEN LStrip(Tail(s)) ELSE s

\* str.strip()
Strip(s) == Reverse(LStrip(Reverse(LStrip(s))))

RECURSIVE Split(_, _)
\* str.split(): the maximal runs of non-whitespace; cur is the run being read
Split(s, cur) ==
    IF s = <<>> THEN (IF cur = <<>> THEN <<>> ELSE <<cur>>)
    ELSE IF IsSpace(Head(s))
         THEN (IF cur = <<>> THEN <<>> ELSE <<cur>>) \o Split(Tail(s), <<>>)
         ELSE Split(Tail(s), Append(cur, Head(s)))

----------------------------------------------------------------------------
(* Step 1: unicodedata.normalize("NFC", .)                                 *)

\* the precomposed form of base + combining acute, where Unicode has one
Composed(base) ==
    CASE base = "a" -> "U+00E1"
      [] base = "A" -> "U+00C1"
      [] base = "c" -> "U+0107"
      [] base = "s" -> "U+015B"
      [] OTHER -> "none"

RECURSIVE NFC(_)
NFC(s) ==
    IF Len(s) < 2 THEN s
    ELSE IF s[2] = CombiningMark /\ Composed(s[1]) # "none"
         THEN NFC(<<Composed(s[1])>> \o SubSeq(s, 3, Len(s)))
         ELSE <<s[1]>> \o NFC(Tail(s))

----------------------------------------------------------------------------
(* The transliteration capability: self._transliterator.transliterate.     *)
(* A capability t has a per-character table t.char and context rules       *)
(* t.pair: a pair of adjacent characters that is transliterated as a       *)
(* whole, differently from its two characters taken alone.                 *)

\* the capability's output for one character alone; a character the table does
\* not list is kept
OfChar(t, ch) == IF ch \in DOMAIN t.char THEN t.char[ch] ELSE <<ch>>

RECURSIVE transliterate(_, _)
transliterate(t, s) ==
    IF s = <<>> THEN <<>>
    ELSE IF Len(s) >= 2 /\ <<s[1], s[2]>> \in DOMAIN t.pair
         THEN t.pair[<<s[1], s[2]>>] \o transliterate(t, SubSeq(s, 3, Len(s)))
         ELSE OfChar(t, s[1]) \o transliterate(t, Tail(s))

----------------------------------------------------------------------------
(* Step 2: transliteration with a character mapping.                       *)

\* a variant that adds one entry per original character, whatever the
\* length of its part
MappingEntries_append_once(orig_idx, part) == <<orig_idx>>

\* [orig_idx] * len(part): the entries one original character adds
MappingEntries(orig_idx, part) == Repeat(orig_idx, Len(part))

RECURSIVE PerCharacterFrom(_, _, _)
\* the loop of _transliterate_per_character from orig_idx on: the parts and the
\* mapping entries they add
PerCharacterFrom(t, s, orig_idx) ==
    IF orig_idx >= Len(s) THEN [parts |-> <<>>, trans_to_orig |-> <<>>]
    ELSE LET part == transliterate(t, <<s[orig_idx + 1]>>)
             rest == PerCharacterFrom(t, s, orig_idx + 1)
         IN  [parts |-> <<part>> \o rest.parts,
              trans_to_orig |-> MappingEntries(orig_idx, part) \o rest.trans_to_orig]

_transliterate_per_character(t, s) ==
    LET r == PerCharacterFrom(t, s, 0)
    IN  [str |-> Concat(r.parts), trans_to_orig |-> r.trans_to_orig]

\* difflib.SequenceMatcher.find_longest_match without junk: the longest block
\* a[i:i+k] = b[j:j+k] inside a[alo:ahi], b[blo:bhi]; of the longest the one that
\* starts earliest in a, and of those the one that starts earliest in b
find_longest_match(a, b, alo, ahi, blo, bhi) ==
    LET blocks == {m \in (alo..(ahi - 1)) \X (blo..(bhi - 1)) \X (1..(ahi - alo)) :
                      /\ m[1] + m[3] <= ahi
                      /\ m[2] + m[3] <= bhi
                      /\ \A d \in 0..(m[3] - 1) : a[m[1] + d + 1] = b[m[2] + d + 1]}
        Better(m, n) == \/ m[3] > n[3]
                        \/ m[3] = n[3] /\ m[1] < n[1]
                        \/ m[3] = n[3] /\ m[1] = n[1] /\ m[2] <= n[2]
    IN  IF blocks = {} THEN <<alo, blo, 0>>
        ELSE CHOOSE m \in blocks : \A n \in blocks : Better(m, n)

RECURSIVE MatchingBlocksIn(_, _, _, _, _, _)
\* the blocks get_matching_blocks finds in a[alo:ahi], b[blo:bhi], in order
MatchingBlocksIn(a, b, alo, ahi, blo, bhi) ==
    LET m == find_longest_match(a, b, alo, ahi, blo, bhi)
        i == m[1]
        j == m[2]
        k == m[3]
    IN  IF k = 0 THEN <<>>
        ELSE (IF alo < i /\ blo < j THEN MatchingBlocksIn(a, b, alo, i, blo, j) ELSE <<>>)
             \o <<m>>
             \o (IF i + k < ahi /\ j + k < bhi
                 THEN MatchingBlocksIn(a, b, i + k, ahi, j + k, bhi) ELSE <<>>)

RECURSIVE CollapseAdjacent(_, _)
\* get_matching_blocks: adjacent blocks are joined into one
CollapseAdjacent(blocks, cur) ==
    IF blocks = <<>> THEN (IF cur[3] > 0 THEN <<cur>> ELSE <<>>)
    ELSE LET m == Head(blocks)
         IN  IF cur[1] + cur[3] = m[1] /\ cur[2] + cur[3] = m[2]
             THEN CollapseAdjacent(Tail(blocks), <<cur[1], cur[2], cur[3] + m[3]>>)
             ELSE (IF cur[3] > 0 THEN <<cur>> ELSE <<>>)
                  \o CollapseAdjacent(Tail(blocks), m)

get_matching_blocks(a, b) ==
    CollapseAdjacent(MatchingBlocksIn(a, b, 0, Len(a), 0, Len(b)), <<0, 0, 0>>)
        \o <<<<Len(a), Len(b), 0>>>>

RECURSIVE OpcodesFrom(_, _, _)
\* the loop of get_opcodes over the matching blocks, with its cursor (i, j)
OpcodesFrom(blocks, i, j) ==
    IF blocks = <<>> THEN <<>>
    ELSE LET ai == Head(blocks)[1]
             bj == Head(blocks)[2]
             size == Head(blocks)[3]
             tag == IF i < ai /\ j < bj THEN "replace"
                    ELSE IF i < ai THEN "delete"
                    ELSE IF j < bj THEN "insert"
                    ELSE ""
         IN  (IF tag # "" THEN <<<<tag, i, ai, j, bj>>>> ELSE <<>>)
             \o (IF size > 0 THEN <<<<"equal", ai, ai + size, bj, bj + size>>>> ELSE <<>>)
             \o OpcodesFrom(Tail(blocks), ai + size, bj + size)

\* SequenceMatcher(a=a, b=b, autojunk=False).get_opcodes()
get_opcodes(a, b) == OpcodesFrom(get_matching_blocks(a, b), 0, 0)

RECURSIVE AlignOver(_, _, _, _)
\* the loop of _align_full_to_per_character over the opcodes
AlignOver(ops, full_to_per_char, uncertain_positions, max_per_index) ==
    IF ops = <<>>
    THEN [full_to_per_char |-> full_to_per_char, uncertain_positions |-> uncertain_positions]
    ELSE LET tag == Head(ops)[1]
             full_start == Head(ops)[2]
             full_end == Head(ops)[3]
             per_start == Head(ops)[4]
             fallback_per_index == Min(per_start, max_per_index)
             inside(p) == full_start <= p - 1 /\ p - 1 < full_end
         IN  IF tag = "equal"
             THEN AlignOver(Tail(ops),
                      [p \in DOMAIN full_to_per_char |->
                          IF inside(p) THEN per_start + (p - 1 - full_start)
                          ELSE full_to_per_char[p]],
                      uncertain_positions, max_per_index)
             ELSE AlignOver(Tail(ops),
                      [p \in DOMAIN full_to_per_char |->
                          IF inside(p) THEN fallback_per_index ELSE full_to_per_char[p]],
                      [p \in DOMAIN uncertain_positions |->
                          IF inside(p) THEN TRUE ELSE uncertain_positions[p]],
                      max_per_index)

\* a variant that aligns the two transliterations position by position
_align_position_by_position(full_transliterated, per_char_transliterated) ==
    [full_to_per_char |->
        [p \in DOMAIN full_transliterated |-> Min(p - 1, Max(Len(per_char_transliterated) - 1, 0))],
     uncertain_positions |-> Repeat(FALSE, Len(full_transliterated))]

_align_full_to_per_character(full_transliterated, per_char_transliterated) ==
    IF full_transliterated = <<>>
    THEN [full_to_per_char |-> <<>>, uncertain_positions |-> <<>>]
    ELSE AlignOver(get_opcodes(full_transliterated, per_char_transliterated),
                   Repeat(0, Len(full_transliterated)),
                   Repeat(FALSE, Len(full_transliterated)),
                   Max(Len(per_char_transliterated) - 1, 0))

RECURSIVE ComposeFrom(_, _, _, _, _, _, _)
\* the loop of _compose_full_to_original_mapping from full_idx on; full_to_orig
\* holds the entries written so far
ComposeFrom(full_idx, full_to_per_char, uncertain_positions, per_char_to_orig, original_length, full_to_orig, last_valid_orig) ==
    IF full_idx >= Len(full_to_per_char) THEN full_to_orig
    ELSE LET max_orig_index == original_length - 1
             max_per_index == Len(per_char_to_orig) - 1
             per_idx == full_to_per_char[full_idx + 1]
             bounded_per_idx == Min(Max(per_idx, 0), max_per_index)
             mapped_orig == per_char_to_orig[bounded_per_idx + 1]
             clamped == Min(Max(mapped_orig, 0), max_orig_index)
             after_uncertain ==
                 IF uncertain_positions[full_idx + 1] /\ full_idx > 0
                 THEN Max(clamped, last_valid_orig) ELSE clamped
             bounded_orig ==
                 IF full_idx > 0
                 THEN Max(after_uncertain, full_to_orig[full_idx]) ELSE after_uncertain
         IN  ComposeFrom(full_idx + 1, full_to_per_char, uncertain_positions,
                         per_char_to_orig, original_length,
                         Append(full_to_orig, bounded_orig), bounded_orig)

_compose_full_to_original_mapping(full_to_per_char, uncertain_positions, per_char_to_orig, original_length) ==
    IF full_to_per_char = <<>> THEN <<>>
    ELSE IF original_length = 0 THEN Repeat(0, Len(full_to_per_char))
    ELSE IF per_char_to_orig = <<>> THEN Repeat(0, Len(full_to_per_char))
    ELSE ComposeFrom(0, full_to_per_char, uncertain_positions, per_char_to_orig,
                     original_length, <<>>, 0)

\* (transliterated_text, trans_to_orig), and the branch that produced them
_transliterate_with_mapping(t, s) ==
    IF s = <<>> THEN [str |-> <<>>, trans_to_orig |-> <<>>, branch |-> "empty"]
    ELSE LET full_transliterated == transliterate(t, s)
             per == _transliterate_per_character(t, s)
         IN  IF full_transliterated = per.str
             THEN [str |-> full_transliterated, trans_to_orig |-> per.trans_to_orig,
                   branch |-> "agree"]
             ELSE LET al == _align_full_to_per_character(full_transliterated, per.str)
                  IN  [str |-> full_transliterated,
                       trans_to_orig |->
                           _compose_full_to_original_mapping(
                               al.full_to_per_char, al.uncertain_positions,
                               per.trans_to_orig, Len(s)),
                       branch |-> "reconcile"]

----------------------------------------------------------------------------
(* _normalize_dictionary: raw words to comparison tokens.                  *)

\* [a-z0-9'] of _DICT_STRIP_PUNCT_RE
IsTokenChar(ch) == ch \in AsciiLower \cup Digits \cup {"'"}

RECURSIVE StripLeadingPunct(_)
StripLeadingPunct(s) ==
    IF s # <<>> /\ ~IsTokenChar(Head(s)) THEN StripLeadingPunct(Tail(s)) ELSE s

\* _DICT_STRIP_PUNCT_RE.sub("", token)
StripPunct(token) == Reverse(StripLeadingPunct(Reverse(StripLeadingPunct(token))))

\* the cleaned tokens of one dictionary item
ItemTokens(t, item) ==
    IF item = <<>> THEN {}
    ELSE LET lowered_item == Lower(transliterate(t, NFC(item)))
             tokens == Split(lowered_item, <<>>)
         IN  {StripPunct(tokens[k]) : k \in DOMAIN tokens} \ {<<>>}

_normalize_dictionary(t, dictionary) ==
    UNION {ItemTokens(t, dictionary[k]) : k \in DOMAIN dictionary}

----------------------------------------------------------------------------
(* Step 3a: dictionary detection.                                          *)

Detection(entity_type, trans_start, trans_end) ==
    [entity_type |-> entity_type, trans_start |-> trans_start, trans_end |-> trans_end]

\* a variant that looks only at the character before the occurrence
WordBoundaries_before_only(s, idx, end) == idx = 0 \/ ~IsAlnum(s[idx])

\* before_ok and after_ok: the occurrence s[idx:end] is not part of a larger word
WordBoundaries(s, idx, end) ==
    /\ idx = 0 \/ ~IsAlnum(s[idx])
    /\ end = Len(s) \/ ~IsAlnum(s[end + 1])

RECURSIVE DetectWordFrom_resumes_at_end(_, _, _)
\* a variant of the scan that resumes at the end of the occurrence found
DetectWordFrom_resumes_at_end(s, word, start) ==
    LET idx == Find(s, word, start)
        end == idx + Len(word)
    IN  IF idx = -1 THEN <<>>
        ELSE (IF WordBoundaries(s, idx, end) THEN <<Detection("PERSON", idx, end)>> ELSE <<>>)
             \o DetectWordFrom_resumes_at_end(s, word, end)

RECURSIVE DetectWordFrom(_, _, _)
\* the while loop of _detect_dictionary for one word, from start on
DetectWordFrom(s, word, start) ==
    LET idx == Find(s, word, start)
        end == idx + Len(word)
    IN  IF idx = -1 THEN <<>>
        ELSE (IF WordBoundaries(s, idx, end) THEN <<Detection("PERSON", idx, end)>> ELSE <<>>)
             \o DetectWordFrom(s, word, idx + 1)

RECURSIVE DetectWords(_, _)
DetectWords(s, words) ==
    IF words = <<>> THEN <<>>
    ELSE (IF Head(words) = <<>> THEN <<>> ELSE DetectWordFrom(s, Head(words), 0))
         \o DetectWords(s, Tail(words))

\* the orders in which a set can be iterated
Orders(S) == {o \in [1..Cardinality(S) -> S] : \A x \in S : \E k \in DOMAIN o : o[k] = x}

\* _detect_dictionary, iterating the set in the given order
_detect_dictionary(s, order) ==
    IF order = <<>> THEN <<>> ELSE DetectWords(s, order)

----------------------------------------------------------------------------
(* Step 3b: regex detection.  Each rule is given by what re matches at a   *)
(* position: the end of the match that starts there, or -1.                *)

EMAIL_TLD_MIN == 2
PHONE_BODY_MIN == 5
PHONE_BODY_MAX == 18
ID_MIN == 6
ID_MAX == 20

\* the character classes of the patterns
ClassChars ==
    [class \in {"\\w", "\\d", "[\\w.\\-+]", "[\\w.\\-]", "[\\d\\s\\-()]"} |->
        CASE class = "\\w" -> WordChars
          [] class = "\\d" -> Digits
          [] class = "[\\w.\\-+]" -> WordChars \cup {".", "-", "+"}
          [] class = "[\\w.\\-]" -> WordChars \cup {".", "-"}
          [] class = "[\\d\\s\\-()]" -> Digits \cup Whitespace \cup {"-", "(", ")"}]

InClass(class, ch) == ch \in ClassChars[class]

\* whether position i of s exists and holds the character
Is(s, i, ch) == i >= 0 /\ i < Len(s) /\ s[i + 1] = ch

\* whether position i of s exists and holds a character of the class
Holds(s, i, class) == i >= 0 /\ i < Len(s) /\ InClass(class, s[i + 1])

RECURSIVE RunEnd(_, _, _)
\* the end of the longest run of characters of the class that starts at i
RunEnd(s, i, class) ==
    IF Holds(s, i, class) THEN RunEnd(s, i + 1, class) ELSE i

\* _EMAIL_RE = [\w.\-+]+@[\w.\-]+\.\w{2,}
EmailMatchAt(s, i) ==
    LET at == RunEnd(s, i, "[\\w.\\-+]")          \* the local part is greedy
        stop == RunEnd(s, at + 1, "[\\w.\\-]")
        \* the dot before the top-level domain: the greedy domain gives back as
        \* little as it can, so the last dot that two word characters follow
        dots == {q \in (at + 2)..(stop - 1) :
                    /\ Is(s, q, ".")
                    /\ RunEnd(s, q + 1, "\\w") - (q + 1) >= EMAIL_TLD_MIN}
        dot == CHOOSE q \in dots : \A r \in dots : r <= q
    IN  IF at > i /\ Is(s, at, "@") /\ dots # {}
        THEN RunEnd(s, dot + 1, "\\w") ELSE -1

\* _PHONE_RE = (?<!\w)\+?\d[\d\s\-()]{5,18}\d(?!\w)
PhoneMatchAt(s, i) ==
    LET first == IF Is(s, i, "+") THEN i + 1 ELSE i
        run == RunEnd(s, first + 1, "[\\d\\s\\-()]") - (first + 1)
        \* body lengths after which a digit and no word character follow
        bodies == {n \in PHONE_BODY_MIN..Min(PHONE_BODY_MAX, run) :
                      /\ Holds(s, first + 1 + n, "\\d")
                      /\ ~Holds(s, first + 2 + n, "\\w")}
        body == CHOOSE n \in bodies : \A m \in bodies : m <= n
    IN  IF Holds(s, first, "\\d") /\ ~Holds(s, i - 1, "\\w") /\ bodies # {}
        THEN first + 2 + body ELSE -1

\* _ID_RE = \b\d{6,20}\b
IdMatchAt(s, i) ==
    LET run == RunEnd(s, i, "\\d") - i
        lengths == {n \in ID_MIN..Min(ID_MAX, run) : ~Holds(s, i + n, "\\w")}
        length == CHOOSE n \in lengths : \A m \in lengths : m <= n
    IN  IF Holds(s, i, "\\d") /\ ~Holds(s, i - 1, "\\w") /\ lengths # {}
        THEN i + length ELSE -1

\* the end of the match of the rule's pattern that starts at i, or -1
MatchAt(entity_type, s, i) ==
    CASE entity_type = "EMAIL" -> EmailMatchAt(s, i)
      [] entity_type = "PHONE" -> PhoneMatchAt(s, i)
      [] entity_type = "ID" -> IdMatchAt(s, i)

RECURSIVE FindIter(_, _, _)
\* pattern.finditer(s): the matches left to right, each search starting where
\* the match before it ended
FindIter(entity_type, s, pos) ==
    IF pos >= Len(s) THEN <<>>
    ELSE LET end == MatchAt(entity_type, s, pos)
         IN  IF end = -1 THEN FindIter(entity_type, s, pos + 1)
             ELSE <<Detection(entity_type, pos, end)>> \o FindIter(entity_type, s, end)

\* a variant that applies the ID rule before the PHONE rule
_REGEX_RULES_id_before_phone == <<"EMAIL", "ID", "PHONE">>

_REGEX_RULES == <<"EMAIL", "PHONE", "ID">>

RECURSIVE DetectRules(_, _)
DetectRules(rules, s) ==
    IF rules = <<>> THEN <<>>
    ELSE FindIter(Head(rules), s, 0) \o DetectRules(Tail(rules), s)

\* _detect_regex: the rules of _REGEX_RULES in their order
_detect_regex(s) == DetectRules(_REGEX_RULES, s)

----------------------------------------------------------------------------
(* Step 4: map the spans to the original text and merge overlaps.          *)
(* A span is <<entity_type, orig_start, orig_end>>.                        *)

NoSpan == <<>>

\* a variant whose end is the last mapped character, not one past it
_detection_to_original_span_inclusive_end(d, mapping) ==
    IF d.trans_start >= Len(mapping) \/ d.trans_end < 1 THEN NoSpan
    ELSE <<mapping[d.trans_start + 1], mapping[Min(d.trans_end - 1, Len(mapping) - 1) + 1]>>

\* (orig_start, orig_end) of a detection, or None
_detection_to_original_span(d, mapping) ==
    IF d.trans_start >= Len(mapping) \/ d.trans_end < 1 THEN NoSpan
    ELSE LET orig_start == mapping[d.trans_start + 1]
             last_trans_idx == Min(d.trans_end - 1, Len(mapping) - 1)
             orig_end == mapping[last_trans_idx + 1] + 1
         IN  <<orig_start, orig_end>>

\* the sort key of _merge_overlapping_spans: (x[1], -x[2])
KeyLE(x, y) == x[2] < y[2] \/ (x[2] = y[2] /\ -x[3] <= -y[3])

RECURSIVE InsertSorted(_, _)
\* x put after every element whose key is not greater: the sort is stable
InsertSorted(sorted, x) ==
    IF sorted = <<>> THEN <<x>>
    ELSE IF KeyLE(Head(sorted), x) THEN <<Head(sorted)>> \o InsertSorted(Tail(sorted), x)
    ELSE <<x>> \o sorted

\* a variant that leaves the spans in the order of the detections
SortSpans_unsorted(spans, sorted) == sorted \o spans

RECURSIVE SortSpans(_, _)
\* sorted(spans, key=...): the spans taken in order and inserted
SortSpans(spans, sorted) ==
    IF spans = <<>> THEN sorted
    ELSE SortSpans(Tail(spans), InsertSorted(sorted, Head(spans)))

\* a variant that compares with the start of the last merged span
Overlaps_compares_start(x, last) == x[2] < last[2]

\* start < merged[-1][2]: x begins before the last merged span ends
Overlaps(x, last) == x[2] < last[3]

\* a variant that ends the merged span where the absorbed span ends
MergedSpan_ends_with_absorbed(last, x) == <<last[1], last[2], x[3]>>

\* a variant that gives the merged span the type of the absorbed span
MergedSpan_takes_type(last, x) == <<x[1], last[2], Max(last[3], x[3])>>

\* (_prev_type, prev_start, max(prev_end, end)): the last merged span absorbs x
MergedSpan(last, x) == <<last[1], last[2], Max(last[3], x[3])>>

RECURSIVE MergeSweep(_, _)
\* the sweep of _merge_overlapping_spans over the sorted spans
MergeSweep(spans, merged) ==
    IF spans = <<>> THEN merged
    ELSE LET x == Head(spans)
             last == merged[Len(merged)]
         IN  IF merged # <<>> /\ Overlaps(x, last)
             THEN MergeSweep(Tail(spans), [merged EXCEPT ![Len(merged)] = MergedSpan(last, x)])
             ELSE MergeSweep(Tail(spans), Append(merged, x))

_merge_overlapping_spans(spans) == MergeSweep(SortSpans(spans, <<>>), <<>>)

RECURSIVE RawSpans(_, _)
\* the loop of _map_to_original: the spans of the detections that map
RawSpans(ds, mapping) ==
    IF ds = <<>> THEN <<>>
    ELSE LET span == _detection_to_original_span(Head(ds), mapping)
         IN  (IF span # NoSpan THEN <<<<Head(ds).entity_type, span[1], span[2]>>>> ELSE <<>>)
             \o RawSpans(Tail(ds), mapping)

_map_to_original(ds, mapping) == _merge_overlapping_spans(RawSpans(ds, mapping))

----------------------------------------------------------------------------
(* Step 5: replacement and artifacts.                                      *)

EntityTypes == {"PERSON", "EMAIL", "PHONE", "ID"}

\* the characters of an entity type's name
TypeName(entity_type) ==
    CASE entity_type = "PERSON" -> <<"P", "E", "R", "S", "O", "N">>
      [] entity_type = "EMAIL" -> <<"E", "M", "A", "I", "L">>
      [] entity_type = "PHONE" -> <<"P", "H", "O", "N", "E">>
      [] entity_type = "ID" -> <<"I", "D">>

DigitChar(d) == <<"0", "1", "2", "3", "4", "5", "6", "7", "8", "9">>[d + 1]

RECURSIVE Decimal(_)
\* str(n) for n >= 0
Decimal(n) == IF n < 10 THEN <<DigitChar(n)>> ELSE Append(Decimal(n \div 10), DigitChar(n % 10))

\* a variant that numbers the placeholders without naming the type
Placeholder_without_type(entity_type, counter) == <<"P", "I", "I", "_">> \o Decimal(counter)

\* f"{entity_type}_{counter}"
Placeholder(entity_type, counter) == TypeName(entity_type) \o <<"_">> \o Decimal(counter)

\* a variant whose keys keep the case of the value
SpanKey_case_sensitive(original, span) ==
    <<span[1], Strip(Slice(original, span[2], span[3]))>>

\* the key of a span: (entity_type, original[start:end].strip().lower())
SpanKey(original, span) == <<span[1], Lower(Strip(Slice(original, span[2], span[3])))>>

\* a variant with one counter shared by all entity types
NextCounter_shared(counters, entity_type) ==
    counters["PERSON"] + counters["EMAIL"] + counters["PHONE"] + counters["ID"] + 1

\* counters.get(entity_type, 0) + 1
NextCounter(counters, entity_type) == counters[entity_type] + 1

RECURSIVE AssignPlaceholders(_, _, _, _)
\* the first pass of _replace: entity_map after the spans, left to right
AssignPlaceholders(original, spans, counters, entity_map) ==
    IF spans = <<>> THEN entity_map
    ELSE LET key == SpanKey(original, Head(spans))
             counter == NextCounter(counters, key[1])
         IN  IF key \in DOMAIN entity_map
             THEN AssignPlaceholders(original, Tail(spans), counters, entity_map)
             ELSE AssignPlaceholders(original, Tail(spans),
                      [counters EXCEPT ![key[1]] = counter],
                      [k \in DOMAIN entity_map \cup {key} |->
                          IF k = key THEN Placeholder(key[1], counter) ELSE entity_map[k]])

\* a variant that records the value of the key as the original
Artifact_records_value(type, original, replacement) ==
    [type |-> type, original |-> Lower(Strip(original)), replacement |-> replacement]

Artifact(type, original, replacement) ==
    [type |-> type, original |-> original, replacement |-> replacement]

\* a character written by _replace carries no original position
Written(placeholder) == [k \in DOMAIN placeholder |-> [ch |-> placeholder[k], from |-> -1]]

RECURSIVE Rewrite(_, _, _, _, _)
\* the second pass of _replace over reversed(spans).  The text being rewritten
\* is kept as cells [ch, from]: the character and the position of the original
\* it was copied from
Rewrite(original, rspans, entity_map, cells, artifacts) ==
    IF rspans = <<>> THEN [cells |-> cells, artifacts |-> artifacts]
    ELSE LET span == Head(rspans)
             original_value == Slice(original, span[2], span[3])
             placeholder == entity_map[SpanKey(original, span)]
         IN  Rewrite(original, Tail(rspans), entity_map,
                     Slice(cells, 0, span[2]) \o Written(placeholder)
                         \o Slice(cells, span[3], Len(cells)),
                     Append(artifacts, Artifact(span[1], original_value, placeholder)))

\* a variant that returns the artifacts in the order the rewrite built them
ArtifactsInTextOrder_unreversed(artifacts) == artifacts

\* artifacts.reverse(): the rewrite ran right to left
ArtifactsInTextOrder(artifacts) == Reverse(artifacts)

\* a variant that rewrites the spans from the left, each at its old position
_replace_left_to_right(original, spans) ==
    LET entity_map == AssignPlaceholders(original, spans,
                          [e \in EntityTypes |-> 0], [k \in {} |-> <<>>])
        cells == [k \in DOMAIN original |-> [ch |-> original[k], from |-> k - 1]]
        r == Rewrite(original, spans, entity_map, cells, <<>>)
    IN  [anonymized_text |-> [k \in DOMAIN r.cells |-> r.cells[k].ch],
         artifacts |-> r.artifacts,
         origin |-> [k \in DOMAIN r.cells |-> r.cells[k].from]]

_replace(original, spans) ==
    LET entity_map == AssignPlaceholders(original, spans,
                          [e \in EntityTypes |-> 0], [k \in {} |-> <<>>])
        cells == [k \in DOMAIN original |-> [ch |-> original[k], from |-> k - 1]]
        r == Rewrite(original, Reverse(spans), entity_map, cells, <<>>)
    IN  [anonymized_text |-> [k \in DOMAIN r.cells |-> r.cells[k].ch],
         artifacts |-> ArtifactsInTextOrder(r.artifacts),
         origin |-> [k \in DOMAIN r.cells |-> r.cells[k].from]]

----------------------------------------------------------------------------
(* The inputs of a call.                                                   *)

\* every sequence over S of length lo..hi
SeqsOver(S, lo, hi) == UNION {[1..n -> S] : n \in lo..hi}

RECURSIVE JoinWords(_)
\* " ".join(words)
JoinWords(words) ==
    IF Len(words) <= 1 THEN Concat(words)
    ELSE Head(words) \o <<" ">> \o JoinWords(Tail(words))

\* the characters of the free input family
FreeChars == {"a", "A", "b", " ", "U+0301", "U+0429"}

\* the words of the word-built input family: names in two spellings, a
\* hyphenated name, an e-mail address, a 6-digit and a 7-digit number
WordLexicon ==
    { <<"a">>, <<"A">>, <<"b">>, <<"a", "-", "a", "-", "a">>,
      <<"a", "@", "b", ".", "a", "a">>,
      <<"1", "1", "1", "1", "1", "1">>,
      <<"2", "2", "2", "2", "2", "2", "2">> }

FreeTexts == SeqsOver(FreeChars, 0, MaxLen)
WordTexts == {JoinWords(ws) : ws \in SeqsOver(WordLexicon, 1, MaxWords)}

\* sensitive_words: None, or a list of raw words
NoneWords == [is_none |-> TRUE, list |-> <<>>]
Words(list) == [is_none |-> FALSE, list |-> list]

Dictionaries ==
    { NoneWords,
      Words(<<>>),
      Words(<< <<"U+00C1", " ", "b">>, <<"-", "U+0429", ".">> >>),
      Words(<< <<"a", "-", "a">>, <<>>, <<"A", "-", "a">> >>) }

\* sensitive_words or []
OrEmptyList(words) == IF words.is_none \/ words.list = <<>> THEN <<>> ELSE words.list

\* The transliteration capability of the main specification.  Its table
\* lowercases, strips the accent of a precomposed letter and spells the
\* Cyrillic shcha with two letters; its context rules drop a combining mark
\* that follows a Latin letter or a digit, and (as the stub of
\* TestContextAwareTransliteration does for "AB") spell "Ab" as "cb".
Transliterator ==
    [char |-> [ch \in {"A", "U+00E1", "U+00C1", "U+0107", "U+015B", "U+0429", "U+0449"} |->
                  CASE ch \in {"U+0429", "U+0449"} -> <<"s", "c">>
                    [] ch = "U+0107" -> <<"c">>
                    [] ch = "U+015B" -> <<"s">>
                    [] OTHER -> <<"a">>],
     pair |-> [p \in {<<base, CombiningMark>> : base \in {"b", "1", "2"}}
                      \cup {<<"A", "b">>} |->
                  IF p = <<"A", "b">> THEN <<"c", "b">> ELSE <<p[1]>>]]

\* An arbitrary capability over the characters "a" and "b": any table with
\* outputs of up to two characters, and at most one context rule, for "ab"
CapChars == {"a", "b"}
CapOutputs == SeqsOver(CapChars, 0, 2)
Capabilities ==
    {[char |-> c, pair |-> p] :
        c \in [CapChars -> CapOutputs],
        p \in {[q \in {} |-> <<>>]} \cup [{<<"a", "b">>} -> CapOutputs]}

\* the exceptions a step of the pipeline can raise
Exceptions ==
    { [type |-> "RuntimeError", message |-> <<"boom">>, cause |-> "none"],
      [type |-> "AnonymizationError", message |-> <<"original error">>, cause |-> "none"] }

----------------------------------------------------------------------------
(* The call anonymize(text, sensitive_words) as a state machine.           *)

NoError == [type |-> "none", message |-> <<>>, cause |-> "none"]

NoResult ==
    [returned |-> FALSE, anonymized_text |-> <<>>, artifacts |-> <<>>,
     transliteration_mapping |-> <<>>]

\* AnonymizationResult(anonymized_text, artifacts, transliteration_mapping)
AnonymizationResult(anonymized_text, artifacts, transliteration_mapping) ==
    [returned |-> TRUE, anonymized_text |-> anonymized_text, artifacts |-> artifacts,
     transliteration_mapping |-> transliteration_mapping]

NoTrace ==
    [transliterate_calls |-> 0, detector_calls |-> 0, branch |-> "none", origin |-> <<>>,
     inner |-> NoError]

\* no call of Processor.process is under way
ProcessorIdle ==
    /\ faults = {}
    /\ ppc = "idle"
    /\ calls = <<>>
    /\ process_raised = NoError
    /\ uploaded_documents = [parsed_result |-> FALSE, anonymised_result |-> FALSE]

\* no worker exists and the table pdf_jobs is empty
WorkerIdle ==
    /\ pdf_jobs = <<>>
    /\ workers = <<>>
    /\ settings = [max_job_attempts |-> 0]
    /\ processor = "none"
    /\ history = <<>>

\* no call of Anonymizer.anonymize is under way
AnonymizerIdle ==
    /\ text = <<>>
    /\ sensitive_words = NoneWords
    /\ transliterator = Transliterator
    /\ pc = "idle"
    /\ normalized = <<>>
    /\ transliterated = <<>>
    /\ trans_to_orig = <<>>
    /\ detections = <<>>
    /\ original_spans = <<>>
    /\ result = NoResult
    /\ raised = NoError
    /\ trace = NoTrace

InitWith(texts, dictionaries, capabilities) ==
    /\ ProcessorIdle
    /\ WorkerIdle
    /\ text \in texts
    /\ sensitive_words \in dictionaries
    /\ transliterator \in capabilities
    /\ pc = "start"
    /\ normalized = <<>>
    /\ transliterated = <<>>
    /\ trans_to_orig = <<>>
    /\ detections = <<>>
    /\ original_spans = <<>>
    /\ result = NoResult
    /\ raised = NoError
    /\ trace = NoTrace

Init == InitWith(FreeTexts \cup WordTexts, Dictionaries, {Transliterator})

InitCap ==
    InitWith(SeqsOver(CapChars, 0, MaxCapLen),
             {Words(<<>>), Words(<< <<"a">> >>)}, Capabilities)

\* a variant that wraps whatever _run raises
Reraise_always_wraps(exc) ==
    [type |-> "AnonymizationError",
     message |-> <<"Anonymization failed: ">> \o exc.message,
     cause |-> exc.type]

\* the except clauses of anonymize: what leaves the call when _run raises exc
Reraise(exc) ==
    IF exc.type = "AnonymizationError" THEN exc
    ELSE [type |-> "AnonymizationError",
          message |-> <<"Anonymization failed: ">> \o exc.message,
          cause |-> exc.type]

\* _run: if not text: return AnonymizationResult(anonymized_text="", artifacts=[])
ReturnEmpty ==
    /\ pc = "start"
    /\ text = <<>>
    /\ result' = AnonymizationResult(<<>>, <<>>, <<>>)
    /\ pc' = "returned"
    /\ UNCHANGED <<processor_vars, worker_vars, text, sensitive_words, transliterator, normalized, transliterated,
                   trans_to_orig, detections, original_spans, raised, trace>>

\* a variant of Transliterate without the test for an empty text before it
Transliterate_without_short_circuit ==
    /\ pc = "start"
    /\ LET n == NFC(text)
           r == _transliterate_with_mapping(transliterator, n)
       IN  /\ normalized' = n
           /\ transliterated' = r.str
           /\ trans_to_orig' = r.trans_to_orig
           /\ trace' = [trace EXCEPT !.transliterate_calls = @ + 1 + Len(n),
                                     !.branch = r.branch]
    /\ pc' = "detect"
    /\ UNCHANGED <<processor_vars, worker_vars, text, sensitive_words, transliterator, detections, original_spans,
                   result, raised>>

\* _run, steps 1 and 2: normalize, transliterate and build the mapping
Transliterate ==
    /\ pc = "start"
    /\ text # <<>>
    /\ LET n == NFC(text)
           r == _transliterate_with_mapping(transliterator, n)
       IN  /\ normalized' = n
           /\ transliterated' = r.str
           /\ trans_to_orig' = r.trans_to_orig
           /\ trace' = [trace EXCEPT !.transliterate_calls = @ + 1 + Len(n),
                                     !.branch = r.branch]
    /\ pc' = "detect"
    /\ UNCHANGED <<processor_vars, worker_vars, text, sensitive_words, transliterator, detections, original_spans,
                   result, raised>>

\* _transliterate_with_mapping raises (the transliteration capability fails)
Raise ==
    /\ pc = "start"
    /\ text # <<>>
    /\ \E exc \in Exceptions :
          /\ raised' = Reraise(exc)
          /\ trace' = [trace EXCEPT !.transliterate_calls = @ + 1, !.inner = exc]
    /\ pc' = "raised"
    /\ UNCHANGED <<processor_vars, worker_vars, text, sensitive_words, transliterator, normalized, transliterated,
                   trans_to_orig, detections, original_spans, result>>

\* what Detect does with the detections ds: the early return or the next step
AfterDetection(ds, unchanged_text, dictionary) ==
    /\ detections' = ds
    /\ trace' = [trace EXCEPT
          !.transliterate_calls =
              @ + Cardinality({k \in DOMAIN dictionary : dictionary[k] # <<>>}),
          !.detector_calls = @ + 2]
    /\ IF ds = <<>>
       THEN /\ result' = AnonymizationResult(unchanged_text, <<>>, trans_to_orig)
            /\ pc' = "returned"
       ELSE /\ result' = result
            /\ pc' = "map"
    /\ UNCHANGED <<processor_vars, worker_vars, text, sensitive_words, transliterator, normalized, transliterated,
                   trans_to_orig, original_spans, raised>>

\* a variant of Detect whose early return gives the input text back
Detect_returns_input_text ==
    /\ pc = "detect"
    /\ LET dictionary == OrEmptyList(sensitive_words)
           normalized_dictionary == _normalize_dictionary(transliterator, dictionary)
       IN  \E order \in Orders(normalized_dictionary) :
              AfterDetection(_detect_dictionary(transliterated, order)
                                 \o _detect_regex(transliterated),
                             text, dictionary)

\* a variant of Detect that runs no detector at all without a dictionary
Detect_nothing_without_dictionary ==
    /\ pc = "detect"
    /\ LET dictionary == OrEmptyList(sensitive_words)
           normalized_dictionary == _normalize_dictionary(transliterator, dictionary)
       IN  \E order \in Orders(normalized_dictionary) :
              AfterDetection(IF dictionary = <<>> THEN <<>>
                             ELSE _detect_dictionary(transliterated, order)
                                      \o _detect_regex(transliterated),
                             normalized, dictionary)

\* _run, step 3: detect, and return at once when nothing was detected
Detect ==
    /\ pc = "detect"
    /\ LET dictionary == OrEmptyList(sensitive_words)
           normalized_dictionary == _normalize_dictionary(transliterator, dictionary)
       IN  \E order \in Orders(normalized_dictionary) :
              AfterDetection(_detect_dictionary(transliterated, order)
                                 \o _detect_regex(transliterated),
                             normalized, dictionary)

\* _run, step 4
MapToOriginal ==
    /\ pc = "map"
    /\ original_spans' = _map_to_original(detections, trans_to_orig)
    /\ pc' = "replace"
    /\ UNCHANGED <<processor_vars, worker_vars, text, sensitive_words, transliterator, normalized, transliterated,
                   trans_to_orig, detections, result, raised, trace>>

\* a variant of Replace that returns the result of _replace as it is
Replace_without_mapping ==
    /\ pc = "replace"
    /\ LET r == _replace(normalized, original_spans)
       IN  /\ result' = AnonymizationResult(r.anonymized_text, r.artifacts, <<>>)
           /\ trace' = [trace EXCEPT !.origin = r.origin]
    /\ pc' = "returned"
    /\ UNCHANGED <<processor_vars, worker_vars, text, sensitive_words, transliterator, normalized, transliterated,
                   trans_to_orig, detections, original_spans, raised>>

\* _run, step 5, and the return of the result with its mapping
Replace ==
    /\ pc = "replace"
    /\ LET r == _replace(normalized, original_spans)
       IN  /\ result' = AnonymizationResult(r.anonymized_text, r.artifacts, trans_to_orig)
           /\ trace' = [trace EXCEPT !.origin = r.origin]
    /\ pc' = "returned"
    /\ UNCHANGED <<processor_vars, worker_vars, text, sensitive_words, transliterator, normalized, transliterated,
                   trans_to_orig, detections, original_spans, raised>>

Next == ReturnEmpty \/ Transliterate \/ Raise \/ Detect \/ MapToOriginal \/ Replace

Spec == Init /\ [][Next]_vars

SpecCap == InitCap /\ [][Next]_vars

----------------------------------------------------------------------------
(* Properties of a call, stated over the state it leaves behind.           *)

Returned == pc = "returned"

Artifacts == result.artifacts

NonDecreasing(m) == \A k \in 1..(Len(m) - 1) : m[k] <= m[k + 1]

\* the positions of the original text that survive in the anonymized text
Surviving == {trace.origin[k] : k \in DOMAIN trace.origin} \ {-1}

\* the original range <<orig_start, orig_end>> of a detection
OriginalRange(d) == _detection_to_original_span(d, trans_to_orig)

\* the merged spans that cover the original range r
Covering(r) ==
    {i \in DOMAIN original_spans : original_spans[i][2] <= r[1] /\ r[2] <= original_spans[i][3]}

\* the detections of the dictionary detector, by index
PersonDetections == {k \in DOMAIN detections : detections[k].entity_type = "PERSON"}

RECURSIVE PatternDetections(_)
\* the detections of the pattern rules among ds, in order
PatternDetections(ds) ==
    IF ds = <<>> THEN <<>>
    ELSE (IF Head(ds).entity_type = "PERSON" THEN <<>> ELSE <<Head(ds)>>)
             \o PatternDetections(Tail(ds))

\* C1: for every non-empty text and every capability, in the branch where the
\* two transliterations agree and in the reconciliation branch, the mapping has
\* one entry per character of the transliterated text, is non-decreasing, and
\* every entry is a position of the normalized text.
C1_MappingInvariants ==
    (text # <<>> /\ pc \notin {"start", "raised"}) =>
        /\ trace.branch \in {"agree", "reconcile"}
        /\ Len(trans_to_orig) = Len(transliterated)
        /\ NonDecreasing(trans_to_orig)
        /\ \A k \in DOMAIN trans_to_orig : trans_to_orig[k] \in 0..(Len(normalized) - 1)

\* the reconciliation branch has produced a mapping over several original positions
C1_Witness ==
    /\ pc = "detect"
    /\ trace.branch = "reconcile"
    /\ Len(trans_to_orig) >= 2
    /\ trans_to_orig[1] < trans_to_orig[Len(trans_to_orig)]

\* C2 as stated: the mapping of a result is empty if and only if the input text
\* is empty.
C2_EmptyIffInputEmpty ==
    Returned => (result.transliteration_mapping = <<>> <=> text = <<>>)

\* C2, amended: an empty input yields an empty mapping; a non-empty input yields
\* a mapping with one entry per character of the transliterated text, so that
\* its mapping is empty if and only if the transliterated text is empty.
C2_EmptyIffNothingTransliterated ==
    Returned =>
        /\ text = <<>> => result.transliteration_mapping = <<>>
        /\ text # <<>> => Len(result.transliteration_mapping) = Len(transliterated)
        /\ result.transliteration_mapping = <<>> <=> (text = <<>> \/ transliterated = <<>>)

\* a non-empty text whose transliteration is empty has returned an empty mapping
C2_Witness ==
    /\ Returned
    /\ text # <<>>
    /\ transliterated = <<>>
    /\ result.transliteration_mapping = <<>>

\* C3: when neither the dictionary detector nor a pattern rule detects
\* anything, the call returns the normalized text, no artifacts, and the mapping.
C3_NoPII ==
    (Returned /\ detections = <<>>) =>
        /\ result.anonymized_text = NFC(text)
        /\ Artifacts = <<>>
        /\ result.transliteration_mapping = trans_to_orig
        /\ Len(result.transliteration_mapping) = Len(transliterated)

\* a text that normalization changes has returned with a dictionary and no detection
C3_Witness ==
    /\ Returned
    /\ detections = <<>>
    /\ sensitive_words.list # <<>>
    /\ NFC(text) # text
    /\ result.anonymized_text = normalized

\* the word a dictionary detection matched in the transliterated text
DetectedWord(k) == Slice(transliterated, detections[k].trans_start, detections[k].trans_end)

\* the replacements of the artifacts that cover detection k
ReplacementsOf(k) == {Artifacts[i].replacement : i \in Covering(OriginalRange(detections[k]))}

\* C4 as stated: every occurrence of the same dictionary value is replaced by
\* the identical placeholder.
C4_SameValueSamePlaceholder ==
    (Returned /\ detections # <<>>) =>
        \A k1, k2 \in PersonDetections :
            DetectedWord(k1) = DetectedWord(k2) =>
                /\ ReplacementsOf(k1) = ReplacementsOf(k2)
                /\ Cardinality(ReplacementsOf(k1)) = 1

\* detection k was replaced on its own: its range is a merged span of type PERSON
OwnSpan(k) ==
    LET r == OriginalRange(detections[k])
    IN  \E i \in DOMAIN original_spans : original_spans[i] = <<"PERSON", r[1], r[2]>>

\* what detection k covers in the original text, lowercased
WrittenForm(k) ==
    LET r == OriginalRange(detections[k])
    IN  Lower(Strip(Slice(normalized, r[1], r[2])))

\* C4, amended: every two occurrences of dictionary values that are replaced on
\* their own (not merged with an overlapping detection) and are written
\* identically in the original text up to case receive the identical placeholder.
C4_SameWrittenFormSamePlaceholder ==
    (Returned /\ detections # <<>>) =>
        \A k1, k2 \in PersonDetections :
            (OwnSpan(k1) /\ OwnSpan(k2) /\ WrittenForm(k1) = WrittenForm(k2)) =>
                /\ ReplacementsOf(k1) = ReplacementsOf(k2)
                /\ Cardinality(ReplacementsOf(k1)) = 1

\* two occurrences written in different case have received the same placeholder
C4_Witness ==
    /\ Returned
    /\ \E k1, k2 \in PersonDetections :
          /\ OwnSpan(k1) /\ OwnSpan(k2)
          /\ OriginalRange(detections[k1]) # OriginalRange(detections[k2])
          /\ Slice(normalized, OriginalRange(detections[k1])[1], OriginalRange(detections[k1])[2])
                 # Slice(normalized, OriginalRange(detections[k2])[1],
                         OriginalRange(detections[k2])[2])
          /\ WrittenForm(k1) = WrittenForm(k2)
          /\ ReplacementsOf(k1) = ReplacementsOf(k2)

\* the value of artifact i: its original, trimmed and lowercased
ValueOf(i) == Lower(Strip(Artifacts[i].original))

\* the artifacts of the type of artifact i that are the first with their value
FirstOfType(i) ==
    {j \in DOMAIN Artifacts :
        /\ Artifacts[j].type = Artifacts[i].type
        /\ \A h \in 1..(j - 1) :
              Artifacts[h].type = Artifacts[j].type => ValueOf(h) # ValueOf(j)}

\* the rank of the value of artifact i among the values of its type, by first
\* occurrence from the left
RankOf(i) ==
    Cardinality({j \in FirstOfType(i) :
                    \E h \in FirstOfType(i) : h >= j /\ h <= i /\ ValueOf(h) = ValueOf(i)})

\* C5: for each entity type T the placeholders used are exactly T_1 .. T_k, k the
\* number of distinct values of that type, numbered without gaps in left-to-right
\* order of first occurrence, whatever spans of other types lie between.
C5_PerTypeCounters ==
    Returned =>
        \A i \in DOMAIN Artifacts :
            Artifacts[i].replacement = Placeholder(Artifacts[i].type, RankOf(i))

\* an artifact of another type lies between the first and the second value of a type
C5_Witness ==
    /\ Returned
    /\ \E i, j, k \in DOMAIN Artifacts :
          /\ i < j /\ j < k
          /\ Artifacts[i].type = Artifacts[k].type
          /\ Artifacts[j].type # Artifacts[i].type
          /\ Artifacts[i].replacement = Placeholder(Artifacts[i].type, 1)
          /\ Artifacts[j].replacement = Placeholder(Artifacts[j].type, 1)
          /\ Artifacts[k].replacement = Placeholder(Artifacts[k].type, 2)

\* the detections as spans of the original text, before the merge
Raw == RawSpans(detections, trans_to_orig)

\* two spans with a position in common
RangesOverlap(x, y) == x[2] < y[3] /\ y[2] < x[3]

\* C6: any two raw detections whose original ranges overlap produce exactly one
\* artifact, its span covers the union of the two ranges, and no character of
\* either range survives in the anonymized text.
C6_OverlapCollapse ==
    (Returned /\ detections # <<>>) =>
        /\ Len(Artifacts) = Len(original_spans)
        /\ \A j, k \in DOMAIN Raw :
              (j < k /\ RangesOverlap(Raw[j], Raw[k])) =>
                  LET lo == Min(Raw[j][2], Raw[k][2])
                      hi == Max(Raw[j][3], Raw[k][3])
                      hit == {i \in DOMAIN original_spans :
                                 \/ RangesOverlap(original_spans[i], Raw[j])
                                 \/ RangesOverlap(original_spans[i], Raw[k])}
                  IN  /\ Cardinality(hit) = 1
                      /\ \A i \in hit :
                            /\ original_spans[i][2] <= lo
                            /\ hi <= original_spans[i][3]
                            /\ Artifacts[i].original =
                                   Slice(normalized, original_spans[i][2], original_spans[i][3])
                      /\ \A p \in lo..(hi - 1) : p \notin Surviving

\* two detections that overlap in part, neither inside the other, were replaced
C6_Witness ==
    /\ Returned
    /\ \E j, k \in DOMAIN Raw :
          /\ Raw[j][2] < Raw[k][2]
          /\ Raw[k][2] < Raw[j][3]
          /\ Raw[j][3] < Raw[k][3]
    /\ Len(Artifacts) = 1

\* C7 as stated: for every pair of consecutive artifacts, the first position at
\* which the earlier one's replacement occurs in anonymized_text is <= the first
\* position at which the later one's replacement occurs.
C7_FirstAppearanceOrdered ==
    Returned =>
        \A i \in 1..(Len(Artifacts) - 1) :
            Find(result.anonymized_text, Artifacts[i].replacement, 0)
                <= Find(result.anonymized_text, Artifacts[i + 1].replacement, 0)

RECURSIVE WrittenAt(_)
\* the offset in anonymized_text at which the replacement of artifact i was
\* written: the start of its span, shifted by the replacements to its left
WrittenAt(i) ==
    IF i = 1 THEN original_spans[1][2]
    ELSE WrittenAt(i - 1) + Len(Artifacts[i - 1].replacement)
             + (original_spans[i][2] - original_spans[i - 1][3])

\* C7, amended: the artifacts list is ordered by the position at which each
\* artifact's own replacement was written into anonymized_text: the i-th
\* artifact's replacement stands at an offset of anonymized_text, and these
\* offsets increase strictly with i.
C7_WrittenPositionOrdered ==
    (Returned /\ detections # <<>>) =>
        /\ Len(Artifacts) = Len(original_spans)
        /\ \A i \in DOMAIN Artifacts :
              /\ Slice(result.anonymized_text, WrittenAt(i),
                       WrittenAt(i) + Len(Artifacts[i].replacement)) = Artifacts[i].replacement
              /\ \A q \in (WrittenAt(i) + 1)..(WrittenAt(i) + Len(Artifacts[i].replacement)) :
                    trace.origin[q] = -1
              /\ Artifacts[i].original =
                     Slice(normalized, original_spans[i][2], original_spans[i][3])
        /\ \A i \in 1..(Len(Artifacts) - 1) : WrittenAt(i) < WrittenAt(i + 1)

\* a placeholder was written again after another one
C7_Witness ==
    /\ Returned
    /\ Len(Artifacts) >= 3
    /\ Artifacts[1].replacement = Artifacts[3].replacement
    /\ Artifacts[1].replacement # Artifacts[2].replacement

\* C8: what leaves anonymize when the pipeline raises is an AnonymizationError:
\* any other exception is wrapped in one with a descriptive message, an
\* AnonymizationError leaves unchanged, and no result is returned.
C8_SingleErrorKind ==
    /\ pc = "raised" <=> raised # NoError
    /\ pc = "raised" =>
          /\ result = NoResult
          /\ trace.inner \in Exceptions
          /\ raised.type = "AnonymizationError"
          /\ trace.inner.type = "AnonymizationError" => raised = trace.inner
          /\ trace.inner.type # "AnonymizationError" =>
                /\ raised.cause = trace.inner.type
                /\ Len(raised.message) > Len(trace.inner.message)
                /\ raised.message[1] = "Anonymization failed: "
                /\ Tail(raised.message) = trace.inner.message

\* an exception of another type was raised inside and left wrapped
C8_Witness ==
    /\ pc = "raised"
    /\ trace.inner.type = "RuntimeError"
    /\ raised.type = "AnonymizationError"
    /\ raised.cause = "RuntimeError"

\* C9: an empty text returns "" with no artifacts and an empty mapping, raises
\* nothing, and invokes neither the transliteration nor a detector, for any
\* sensitive_words.
C9_EmptyInputShortCircuits ==
    (text = <<>> /\ pc # "start") =>
        /\ pc = "returned"
        /\ result = AnonymizationResult(<<>>, <<>>, <<>>)
        /\ raised = NoError
        /\ trace.transliterate_calls = 0
        /\ trace.detector_calls = 0
        /\ trace.branch = "none"

\* the empty text has returned, called with a dictionary
C9_Witness ==
    /\ text = <<>>
    /\ Returned
    /\ sensitive_words.list # <<>>
    /\ trace.transliterate_calls = 0

\* C10: with sensitive_words None or empty no artifact is a PERSON, while the
\* pattern rules detect what they detect with any dictionary: every match of a
\* pattern in the transliterated text is a detection, lies in an artifact of a
\* pattern type, and none of its characters survives.
C10_NoDictionaryPatternsStill ==
    Returned =>
        /\ text # <<>> => PatternDetections(detections) = _detect_regex(transliterated)
        /\ (sensitive_words.is_none \/ sensitive_words.list = <<>>) =>
              /\ PersonDetections = {}
              /\ \A i \in DOMAIN Artifacts : Artifacts[i].type \in {"EMAIL", "PHONE", "ID"}
              /\ \A k \in DOMAIN detections :
                    LET r == OriginalRange(detections[k])
                    IN  /\ Covering(r) # {}
                        /\ \A p \in r[1]..(r[2] - 1) : p \notin Surviving

\* a call without sensitive_words has replaced matches of two patterns and
\* left a word in place
C10_Witness ==
    /\ Returned
    /\ sensitive_words.is_none
    /\ \E i, j \in DOMAIN Artifacts :
          /\ Artifacts[i].type = "EMAIL"
          /\ Artifacts[j].type \in {"PHONE", "ID"}
    /\ \E p \in Surviving : normalized[p + 1] \in AsciiLower

\* the comparison tokens of the call
Tokens == _normalize_dictionary(transliterator, OrEmptyList(sensitive_words))

\* the places <<i, j>> where a comparison token occurs in the transliterated text
Occurrences ==
    {<<i, i + Len(w)>> : <<w, i>> \in
        {<<w, i>> \in Tokens \X (0..Len(transliterated)) :
            Slice(transliterated, i, i + Len(w)) = w}}

\* the occurrence <<i, j>> has no alphanumeric character right before or after it
Bounded(o) ==
    /\ o[1] = 0 \/ ~IsAlnum(transliterated[o[1]])
    /\ o[2] = Len(transliterated) \/ ~IsAlnum(transliterated[o[2] + 1])

\* the ranges of the PERSON detections
PersonRanges ==
    {<<detections[k].trans_start, detections[k].trans_end>> : k \in PersonDetections}

\* C11: an occurrence of a comparison token is a PERSON detection if and only if
\* the transliterated characters right before and right after it, where there
\* are any, are not alphanumeric; a token inside a longer word is not detected.
C11_WordBoundary ==
    (text # <<>> /\ pc \in {"map", "replace", "returned"}) =>
        PersonRanges = {o \in Occurrences : Bounded(o)}

\* a token occurs inside a longer word, undetected, next to a detected occurrence
C11_Witness ==
    /\ Returned
    /\ \E o \in Occurrences : ~Bounded(o) /\ o \notin PersonRanges
    /\ \E o \in Occurrences : Bounded(o) /\ o \in PersonRanges

\* the lists that hold the entries of list in another order
ListPermutations(list) ==
    {[k \in DOMAIN list |-> list[p[k]]] :
        p \in {q \in [DOMAIN list -> DOMAIN list] : \A k \in DOMAIN list : \E h \in DOMAIN list : q[h] = k}}

\* list in every order, and in every order with its first entry given twice
Rearranged(list) ==
    ListPermutations(list) \cup (IF list = <<>> THEN {} ELSE ListPermutations(list \o <<list[1]>>))

\* what _run returns after steps 1 and 2 when the token set is iterated in
\* the given order and the pattern rules detect regex_detections
OutcomeOf(order, regex_detections) ==
    LET ds == _detect_dictionary(transliterated, order) \o regex_detections
    IN  IF ds = <<>> THEN AnonymizationResult(normalized, <<>>, trans_to_orig)
        ELSE LET r == _replace(normalized, _map_to_original(ds, trans_to_orig))
             IN  AnonymizationResult(r.anonymized_text, r.artifacts, trans_to_orig)

\* C12: for a fixed text the result is the same for every permutation of the
\* sensitive_words list, with or without a duplicated entry, and for every
\* order in which the set of comparison tokens is iterated: every such list
\* gives the same token set, and every iteration order of it the same result.
C12_OrderIndependent ==
    (Returned /\ text # <<>>) =>
        LET regex_detections == _detect_regex(transliterated)
        IN  /\ \A list \in Rearranged(OrEmptyList(sensitive_words)) :
                   _normalize_dictionary(transliterator, list) = Tokens
            /\ \A order \in Orders(Tokens) : OutcomeOf(order, regex_detections) = result

\* a text with detections of several tokens, each iterated first in some order
C12_Witness ==
    /\ Returned
    /\ Cardinality(Tokens) >= 2
    /\ Len(OrEmptyList(sensitive_words)) >= 2
    /\ \E k1, k2 \in PersonDetections :
          /\ k1 < k2
          /\ DetectedWord(k1) # DetectedWord(k2)
          /\ detections[k1].trans_start > detections[k2].trans_start
    /\ Len(Artifacts) >= 2

----------------------------------------------------------------------------
\* Processor.process: the pipeline run for one uploaded document

\* the collaborator calls of process, in the order of its statements
ProcessSteps ==
    << "find_by_id", "load", "extract", "update_parsed_result", "get_sensitive_words",
       "anonymize", "artifacts_extract", "update_anonymised_result", "normalize" >>

\* the calls that can raise: a repository call (no row, a database error), the
\* file loader, the PDF extractor, the anonymizer, the normalizer
FaultySteps ==
    { "find_by_id", "load", "extract", "update_parsed_result", "get_sensitive_words",
      "anonymize", "update_anonymised_result", "normalize" }

\* the exception a failing collaborator call raises
StepError(step) ==
    CASE step = "find_by_id"               -> [type |-> "DocumentNotFoundError", message |-> <<"not", "found">>, cause |-> "none"]
      [] step = "load"                     -> [type |-> "FileNotFoundError", message |-> <<"no", "file">>, cause |-> "none"]
      [] step = "extract"                  -> [type |-> "PdfExtractionError", message |-> <<"bad", "pdf">>, cause |-> "none"]
      [] step = "update_parsed_result"     -> [type |-> "DocumentNotFoundError", message |-> <<"not", "found">>, cause |-> "none"]
      [] step = "get_sensitive_words"      -> [type |-> "OperationalError", message |-> <<"db">>, cause |-> "none"]
      [] step = "anonymize"                -> [type |-> "AnonymizationError", message |-> <<"anonymization", "failed">>, cause |-> "none"]
      [] step = "update_anonymised_result" -> [type |-> "DocumentNotFoundError", message |-> <<"not", "found">>, cause |-> "none"]
      [] step = "normalize"                -> [type |-> "NormalizationError", message |-> <<"normalization", "failed">>, cause |-> "none"]

\* the exception process ends with when every collaborator call succeeded
NotImplementedError ==
    [type |-> "NotImplementedError", message |-> <<"Steps", "6-7", "not", "yet", "implemented">>, cause |-> "none"]

\* the columns of the document row a successful collaborator call writes
Persist(document, step) ==
    CASE step = "update_parsed_result"     -> [document EXCEPT !.parsed_result = TRUE]
      [] step = "update_anonymised_result" -> [document EXCEPT !.anonymised_result = TRUE]
      [] OTHER                             -> document

\* process is called for a document; which collaborators will fail is the input
InitProcessor ==
    /\ AnonymizerIdle
    /\ WorkerIdle
    /\ faults \in SUBSET FaultySteps
    /\ ppc = "find_by_id"
    /\ calls = <<>>
    /\ process_raised = NoError
    /\ uploaded_documents = [parsed_result |-> FALSE, anonymised_result |-> FALSE]

\* a variant of Call in which the exception of a failing call is swallowed
Call_swallows_exception(step, next) ==
    /\ ppc = step
    /\ calls' = Append(calls, step)
    /\ ppc' = next
    /\ uploaded_documents' = IF step \in faults THEN uploaded_documents ELSE Persist(uploaded_documents, step)
    /\ UNCHANGED <<faults, process_raised, anonymizer_vars, worker_vars>>

\* one statement of process: the call of a collaborator, which returns or raises
Call(step, next) ==
    /\ ppc = step
    /\ calls' = Append(calls, step)
    /\ IF step \in faults
       THEN /\ ppc' = "raised"
            /\ process_raised' = StepError(step)
            /\ UNCHANGED uploaded_documents
       ELSE /\ ppc' = next
            /\ uploaded_documents' = Persist(uploaded_documents, step)
            /\ UNCHANGED process_raised
    /\ UNCHANGED <<faults, anonymizer_vars, worker_vars>>

FindById ==
    /\ ppc = "find_by_id"
    /\ Call("find_by_id", "load")

Load ==
    /\ ppc = "load"
    /\ Call("load", "extract")

Extract ==
    /\ ppc = "extract"
    /\ Call("extract", "update_parsed_result")

UpdateParsedResult ==
    /\ ppc = "update_parsed_result"
    /\ Call("update_parsed_result", "get_sensitive_words")

GetSensitiveWords ==
    /\ ppc = "get_sensitive_words"
    /\ Call("get_sensitive_words", "anonymize")

Anonymize ==
    /\ ppc = "anonymize"
    /\ Call("anonymize", "artifacts_extract")

ExtractArtifacts ==
    /\ ppc = "artifacts_extract"
    /\ Call("artifacts_extract", "update_anonymised_result")

UpdateAnonymisedResult ==
    /\ ppc = "update_anonymised_result"
    /\ Call("update_anonymised_result", "normalize")

Normalize ==
    /\ ppc = "normalize"
    /\ Call("normalize", "not_implemented")

\* the last statement of process
RaiseNotImplemented ==
    /\ ppc = "not_implemented"
    /\ ppc' = "raised"
    /\ process_raised' = NotImplementedError
    /\ UNCHANGED <<faults, calls, uploaded_documents, anonymizer_vars, worker_vars>>

NextProcessor ==
    \/ FindById \/ Load \/ Extract \/ UpdateParsedResult \/ GetSensitiveWords
    \/ Anonymize \/ ExtractArtifacts \/ UpdateAnonymisedResult \/ Normalize
    \/ RaiseNotImplemented

SpecProcessor == InitProcessor /\ [][NextProcessor]_vars

\* the whole call of process as one computation: the calls made from the k-th
\* statement on, and the exception process ends with
RECURSIVE ProcessFrom(_, _, _)
ProcessFrom(k, failing, made) ==
    IF k > Len(ProcessSteps) THEN [calls |-> made, raised |-> NotImplementedError]
    ELSE IF ProcessSteps[k] \in failing
         THEN [calls |-> Append(made, ProcessSteps[k]), raised |-> StepError(ProcessSteps[k])]
         ELSE ProcessFrom(k + 1, failing, Append(made, ProcessSteps[k]))

process(failing) == ProcessFrom(1, failing, <<>>)

----------------------------------------------------------------------------
\* Properties of Processor.process

\* the calls of the sequence cs that are among the steps named in the sequence names
RECURSIVE Restricted(_, _)
Restricted(cs, names) ==
    IF cs = <<>> THEN <<>>
    ELSE IF \E k \in DOMAIN names : names[k] = Head(cs)
         THEN <<Head(cs)>> \o Restricted(Tail(cs), names)
         ELSE Restricted(Tail(cs), names)

IsPrefix(p, q) == Len(p) <= Len(q) /\ SubSeq(q, 1, Len(p)) = p

Called(step) == \E k \in DOMAIN calls : calls[k] = step

NamedOrder ==
    << "find_by_id", "load", "extract", "update_parsed_result", "get_sensitive_words",
       "anonymize", "update_anonymised_result" >>

\* C16: process calls find_by_id, load, extract, update_parsed_result,
\* get_sensitive_words, anonymize and update_anonymised_result in this order, each
\* at most once; when a call raises, process ends with that exception and the
\* failing call is the last one made: after a failed extraction update_parsed_result
\* is never called (and the parsed result is not written), after a failed
\* anonymization update_anonymised_result is never called
C16_FixedOrder ==
    /\ IsPrefix(Restricted(calls, NamedOrder), NamedOrder)
    /\ \A k \in DOMAIN calls : calls[k] \in faults => (k = Len(calls) /\ ppc = "raised" /\ process_raised = StepError(calls[k]))
    /\ ppc = "raised" => process_raised = process(faults).raised /\ calls = process(faults).calls
    /\ (Called("extract") /\ "extract" \in faults) => (~Called("update_parsed_result") /\ ~uploaded_documents.parsed_result)
    /\ (Called("anonymize") /\ "anonymize" \in faults) => (~Called("update_anonymised_result") /\ ~uploaded_documents.anonymised_result)

\* a failed extraction after two successful calls, and in another run a failed
\* anonymization after the parsed result was written
C16_Witness ==
    /\ ppc = "raised"
    /\ \/ calls = <<"find_by_id", "load", "extract">> /\ process_raised.type = "PdfExtractionError" /\ "update_parsed_result" \in faults
       \/ /\ Len(calls) = 6 /\ process_raised.type = "AnonymizationError"
          /\ uploaded_documents = [parsed_result |-> TRUE, anonymised_result |-> FALSE]

----------------------------------------------------------------------------
\* Worker, JobRunner and JobRepository: workers polling the table pdf_jobs

NumJobs == 2

MaxAttempts == 2

MaxRuns == 2

Workers == {"w1", "w2"}

NoWorker == "none"

NoJob == 0

\* max_jobs of Worker.run: None, or a number of jobs
NoLimit == 0

\* the jobs were created in the reverse order of their ids
created_at(id) == NumJobs + 1 - id

\* a pending row of pdf_jobs: a new job has 0 attempts, a job that was tried and
\* given up has max_job_attempts
PendingRow(n) ==
    [status |-> "pending", attempts |-> n, locked_at |-> FALSE, error_message |-> <<>>, row_lock |-> NoWorker]

\* Worker.run has been called: jobs_done = 0, no job is claimed. Of JobRunner.run
\* the record keeps the job (id and attempts of the JobRecord), the calls made so
\* far, what process ended with (processed), the exception caught last (exc) and
\* the text passed to mark_failed (error)
StartedWorker(max_jobs) ==
    [pc |-> "loop", max_jobs |-> max_jobs, jobs_done |-> 0, job |-> NoJob, attempts |-> 0, calls |-> <<>>, processed |-> NoError, exc |-> NoError, error |-> <<>>]

\* the test double used in place of the Processor: it returns, or raises this
Boom == [type |-> "Exception", message |-> <<"boom">>, cause |-> "none"]

\* a failure of the database while a statement runs
OperationalError == [type |-> "OperationalError", message |-> <<"db">>, cause |-> "none"]

\* the documents of the jobs: fine, or with a file the PDF extractor rejects
DocumentFaults == { {}, {"extract"} }

InitWorker ==
    /\ AnonymizerIdle
    /\ ppc = "idle"
    /\ calls = <<>>
    /\ process_raised = NoError
    /\ uploaded_documents = [parsed_result |-> FALSE, anonymised_result |-> FALSE]
    /\ processor \in {"Processor", "MagicMock"}
    /\ faults \in IF processor = "Processor" THEN DocumentFaults ELSE { {} }
    /\ settings \in [max_job_attempts : 1 .. MaxAttempts]
    /\ \E n \in 1 .. NumJobs : pdf_jobs \in [1 .. n -> {PendingRow(0), PendingRow(settings.max_job_attempts)}]
    /\ \E ws \in {{"w1"}, Workers} : \E max_jobs \in {NoLimit} \cup (1 .. MaxRuns) : workers = [w \in ws |-> StartedWorker(max_jobs)]
    /\ history = [id \in DOMAIN pdf_jobs |-> 0]

\* a variant of Claimable whose SELECT takes no notice of the locks of others
Claimable_ignores_locks(w) ==
    {id \in DOMAIN pdf_jobs : /\ pdf_jobs[id].status = "pending"
                               /\ pdf_jobs[id].attempts < settings.max_job_attempts}

\* the rows the SELECT of claim_next_job can return to the worker w: pending, with
\* attempts left, and not locked by the transaction of another worker
Claimable(w) ==
    {id \in DOMAIN pdf_jobs : /\ pdf_jobs[id].status = "pending"
                               /\ pdf_jobs[id].attempts < settings.max_job_attempts
                               /\ pdf_jobs[id].row_lock \in {NoWorker, w}}

\* a variant of FirstCreated that takes the job created last
FirstCreated_latest(ids) == CHOOSE id \in ids : \A other \in ids : created_at(other) <= created_at(id)

\* ORDER BY created_at LIMIT 1
FirstCreated(ids) == CHOOSE id \in ids : \A other \in ids : created_at(id) <= created_at(other)

LimitReached(w) == workers[w].max_jobs # NoLimit /\ workers[w].jobs_done >= workers[w].max_jobs

\* Worker.run: the loop ends because max_jobs jobs were run
Stop(w) ==
    /\ workers[w].pc = "loop"
    /\ LimitReached(w)
    /\ workers' = [workers EXCEPT ![w].pc = "stopped"]
    /\ UNCHANGED <<pdf_jobs, settings, processor, history, anonymizer_vars, processor_vars>>

\* claim_next_job: the SELECT ... FOR UPDATE SKIP LOCKED finds a row and locks it
Select(w) ==
    /\ workers[w].pc = "loop"
    /\ ~LimitReached(w)
    /\ Claimable(w) # {}
    /\ LET id == FirstCreated(Claimable(w))
       IN  /\ pdf_jobs' = [pdf_jobs EXCEPT ![id].row_lock = w]
           /\ workers' = [workers EXCEPT ![w].pc = "selected", ![w].job = id, ![w].attempts = pdf_jobs[id].attempts]
    /\ UNCHANGED <<settings, processor, history, anonymizer_vars, processor_vars>>

\* claim_next_job: the SELECT finds no row and None is returned
ClaimNone(w) ==
    /\ workers[w].pc = "loop"
    /\ ~LimitReached(w)
    /\ Claimable(w) = {}
    /\ workers' = [workers EXCEPT ![w].pc = "sleep"]
    /\ UNCHANGED <<pdf_jobs, settings, processor, history, anonymizer_vars, processor_vars>>

\* claim_next_job: the UPDATE and the commit; the lock is released and the job
\* is returned as a JobRecord with the attempts the SELECT read
ClaimCommit(w) ==
    /\ workers[w].pc = "selected"
    /\ pdf_jobs' = [pdf_jobs EXCEPT ![workers[w].job] = [@ EXCEPT !.status = "processing", !.locked_at = TRUE, !.row_lock = NoWorker]]
    /\ workers' = [workers EXCEPT ![w].pc = "run"]
    /\ UNCHANGED <<settings, processor, history, anonymizer_vars, processor_vars>>

\* a variant in which the exception of the claim leaves Worker.run
ClaimError_leaves_run(w) ==
    /\ \/ workers[w].pc = "loop" /\ ~LimitReached(w)
       \/ workers[w].pc = "selected"
    /\ pdf_jobs' = [id \in DOMAIN pdf_jobs |-> IF pdf_jobs[id].row_lock = w THEN [pdf_jobs[id] EXCEPT !.row_lock = NoWorker] ELSE pdf_jobs[id]]
    /\ workers' = [workers EXCEPT ![w].pc = "crashed", ![w].job = NoJob, ![w].attempts = 0, ![w].exc = OperationalError]
    /\ UNCHANGED <<settings, processor, history, anonymizer_vars, processor_vars>>

\* _try_claim_job: the database fails while the job is claimed; the transaction
\* is rolled back and None is returned
ClaimError(w) ==
    /\ \/ workers[w].pc = "loop" /\ ~LimitReached(w)
       \/ workers[w].pc = "selected"
    /\ pdf_jobs' = [id \in DOMAIN pdf_jobs |-> IF pdf_jobs[id].row_lock = w THEN [pdf_jobs[id] EXCEPT !.row_lock = NoWorker] ELSE pdf_jobs[id]]
    /\ workers' = [workers EXCEPT ![w].pc = "sleep", ![w].job = NoJob, ![w].attempts = 0]
    /\ UNCHANGED <<settings, processor, history, anonymizer_vars, processor_vars>>

\* Worker.run: no job was returned, time.sleep(job_poll_interval_seconds)
Sleep(w) ==
    /\ workers[w].pc = "sleep"
    /\ workers' = [workers EXCEPT ![w].pc = "loop"]
    /\ UNCHANGED <<pdf_jobs, settings, processor, history, anonymizer_vars, processor_vars>>

\* what the call of the processor can end with: the exception of process, or for
\* the test double a return (NoError) or its exception
ProcessOutcomes == IF processor = "Processor" THEN {process(faults).raised} ELSE {NoError, Boom}

\* JobRunner.run: self._processor.process(job.uploaded_document_id, job.id)
Process(w) ==
    /\ workers[w].pc = "run"
    /\ \E outcome \in ProcessOutcomes :
          workers' = [workers EXCEPT ![w].pc = IF outcome = NoError THEN "mark_done" ELSE "handle_failure",
                                     ![w].calls = Append(@, "process"), ![w].processed = outcome, ![w].exc = outcome]
    /\ history' = [history EXCEPT ![workers[w].job] = @ + 1]
    /\ UNCHANGED <<pdf_jobs, settings, processor, anonymizer_vars, processor_vars>>

\* JobRunner.run: self._job_repo.mark_done(job.id), which can fail in the database
MarkDone(w) ==
    /\ workers[w].pc = "mark_done"
    /\ \/ /\ pdf_jobs' = [pdf_jobs EXCEPT ![workers[w].job].status = "done"]
          /\ workers' = [workers EXCEPT ![w].pc = "ran", ![w].calls = Append(@, "mark_done")]
       \/ /\ workers' = [workers EXCEPT ![w].pc = "handle_failure", ![w].calls = Append(@, "mark_done"), ![w].exc = OperationalError]
          /\ UNCHANGED pdf_jobs
    /\ UNCHANGED <<settings, processor, history, anonymizer_vars, processor_vars>>

\* a variant of LastAttempt for which no attempt is the last
LastAttempt_never(attempts) == FALSE

\* a variant of LastAttempt that compares job.attempts with max_job_attempts
LastAttempt_without_this_one(attempts) == attempts >= settings.max_job_attempts

\* _handle_failure: job.attempts + 1 >= self._settings.max_job_attempts
LastAttempt(attempts) == attempts + 1 >= settings.max_job_attempts

\* the text _handle_failure passes to the repository call: str(exc) for mark_failed
Reported(w, call) == IF call = "mark_failed" THEN workers[w].exc.message ELSE <<>>

\* a variant whose increment_attempts puts the job back without counting
HandleFailure_without_count(w) ==
    /\ workers[w].pc = "handle_failure"
    /\ LET id == workers[w].job
           call == IF LastAttempt(workers[w].attempts) THEN "mark_failed" ELSE "increment_attempts"
       IN  /\ pdf_jobs' = IF call = "mark_failed"
                          THEN [pdf_jobs EXCEPT ![id] = [@ EXCEPT !.status = "failed", !.error_message = Reported(w, call)]]
                          ELSE [pdf_jobs EXCEPT ![id] = [@ EXCEPT !.status = "pending", !.locked_at = FALSE]]
           /\ workers' = [workers EXCEPT ![w].pc = "ran", ![w].calls = Append(@, call), ![w].error = Reported(w, call)]
    /\ UNCHANGED <<settings, processor, history, anonymizer_vars, processor_vars>>

\* _handle_failure: mark_failed(job.id, str(exc)) or increment_attempts(job.id);
\* an exception of the repository call leaves JobRunner.run and Worker.run
HandleFailure(w) ==
    /\ workers[w].pc = "handle_failure"
    /\ LET id == workers[w].job
           call == IF LastAttempt(workers[w].attempts) THEN "mark_failed" ELSE "increment_attempts"
       IN  \/ /\ pdf_jobs' = IF call = "mark_failed"
                             THEN [pdf_jobs EXCEPT ![id] = [@ EXCEPT !.status = "failed", !.error_message = Reported(w, call)]]
                             ELSE [pdf_jobs EXCEPT ![id] = [@ EXCEPT !.attempts = @ + 1, !.status = "pending", !.locked_at = FALSE]]
              /\ workers' = [workers EXCEPT ![w].pc = "ran", ![w].calls = Append(@, call), ![w].error = Reported(w, call)]
           \/ /\ workers' = [workers EXCEPT ![w].pc = "crashed", ![w].calls = Append(@, call), ![w].error = Reported(w, call), ![w].exc = OperationalError]
              /\ UNCHANGED pdf_jobs
    /\ UNCHANGED <<settings, processor, history, anonymizer_vars, processor_vars>>

\* Worker.run: JobRunner.run returned and its locals are gone, jobs_done += 1
Finish(w) ==
    /\ workers[w].pc = "ran"
    /\ workers' = [workers EXCEPT ![w] = [StartedWorker(@.max_jobs) EXCEPT !.jobs_done = workers[w].jobs_done + 1]]
    /\ UNCHANGED <<pdf_jobs, settings, processor, history, anonymizer_vars, processor_vars>>

\* the steps of the workers; a KeyboardInterrupt, which ends Worker.run from
\* outside at any point, is not among them
NextWorker ==
    \/ \E w \in DOMAIN workers : Stop(w)
    \/ \E w \in DOMAIN workers : Select(w)
    \/ \E w \in DOMAIN workers : ClaimNone(w)
    \/ \E w \in DOMAIN workers : ClaimCommit(w)
    \/ \E w \in DOMAIN workers : ClaimError(w)
    \/ \E w \in DOMAIN workers : Sleep(w)
    \/ \E w \in DOMAIN workers : Process(w)
    \/ \E w \in DOMAIN workers : MarkDone(w)
    \/ \E w \in DOMAIN workers : HandleFailure(w)
    \/ \E w \in DOMAIN workers : Finish(w)

SpecWorker == InitWorker /\ [][NextWorker]_vars

----------------------------------------------------------------------------
\* Properties of JobRunner, JobRepository and Worker

\* JobRunner.run has ended for the worker w: it returned, or an exception left it
RunEnded(w) == workers[w].pc \in {"ran", "crashed"}

\* the repository call _handle_failure makes for the job of the worker w
FailureCall(w) == IF workers[w].attempts + 1 >= settings.max_job_attempts THEN "mark_failed" ELSE "increment_attempts"

\* the repository call the outcome of process asks for
ExpectedCall(w) == IF workers[w].processed = NoError THEN "mark_done" ELSE FailureCall(w)

ProcessCalls(w) == {k \in DOMAIN workers[w].calls : workers[w].calls[k] = "process"}

\* C13 as stated: run calls process once and then makes exactly one repository
\* call, the one the outcome of process asks for
C13_ExactlyOneRepositoryCall ==
    \A w \in DOMAIN workers : RunEnded(w) => workers[w].calls = <<"process", ExpectedCall(w)>>

\* C13: run calls process exactly once, first. When process returned, mark_done is
\* called next, and when mark_done does not raise it is the only repository call;
\* when process or mark_done raised, mark_failed (job.attempts + 1 >=
\* max_job_attempts, with the text of the exception caught) or increment_attempts
\* (otherwise) is called once and is the last call. Only an exception of that last
\* call leaves run: the exception of the processor never does
C13_OneCallPerFailure ==
    \A w \in DOMAIN workers : RunEnded(w) =>
            LET cs == workers[w].calls
            row == pdf_jobs[workers[w].job]
        IN  /\ ProcessCalls(w) = {1}
            /\ cs[2] = ExpectedCall(w)
            /\ IF cs[2] = "mark_done" /\ workers[w].exc = NoError
               THEN cs = <<"process", "mark_done">> /\ workers[w].pc = "ran" /\ row.status = "done"
               ELSE /\ cs[Len(cs)] = FailureCall(w)
                    /\ Len(cs) = (IF workers[w].processed = NoError THEN 3 ELSE 2)
                    /\ workers[w].error = (IF FailureCall(w) = "increment_attempts" THEN <<>>
                                           ELSE IF workers[w].processed = NoError THEN OperationalError.message
                                           ELSE workers[w].processed.message)
                    /\ workers[w].pc = "ran" => workers[w].exc \in {workers[w].processed, OperationalError} \ {NoError}
                    /\ workers[w].pc = "crashed" => (workers[w].exc = OperationalError /\ row.status = "processing")

\* process returned, mark_done raised, and the job went back to pending; and in
\* another run process raised on the last attempt and the job was marked failed
C13_Witness ==
    \E w \in DOMAIN workers :
        /\ workers[w].pc = "ran"
        /\ \/ workers[w].calls = <<"process", "mark_done", "increment_attempts">>
           \/ /\ workers[w].calls = <<"process", "mark_failed">>
              /\ workers[w].processed = NotImplementedError
              /\ workers[w].error = NotImplementedError.message

\* one worker with the Processor and max_jobs = 1 has run the only job of the
\* table, whose document is fine, and has stopped
RanTheOnlyJob ==
    /\ processor = "Processor"
    /\ faults = {}
    /\ DOMAIN workers = {"w1"}
    /\ DOMAIN pdf_jobs = {1}
    /\ workers["w1"].max_jobs = 1
    /\ workers["w1"].pc = "stopped"
    /\ workers["w1"].jobs_done = 1

\* C14: when a worker built with the Processor runs with max_jobs = 1 and the
\* table holds one pending job whose document exists on disk, the worker claims
\* the job, processes it, and the final status of the job is 'done'
C14_FinalStatusDone == RanTheOnlyJob => pdf_jobs[1].status = "done"

\* the rows claim_next_job looks for: pending, with attempts left
Eligible == {id \in DOMAIN pdf_jobs : pdf_jobs[id].status = "pending" /\ pdf_jobs[id].attempts < settings.max_job_attempts}

LockedByAnother(w, id) == pdf_jobs[id].row_lock \notin {NoWorker, w}

\* the steps of claim_next_job for the worker w
Selects(w) == workers[w].pc = "loop" /\ workers'[w].pc = "selected"

Commits(w) == workers[w].pc = "selected" /\ workers'[w].pc = "run"

ReturnsNone(w) == workers[w].pc \in {"loop", "selected"} /\ workers'[w].pc = "sleep"

\* only the lock of the row id changes
OnlyLocks(id) == pdf_jobs' = [pdf_jobs EXCEPT ![id].row_lock = pdf_jobs'[id].row_lock]

\* the row of the job w selected becomes 'processing' with locked_at set, its
\* attempts and every other row stay as they are, the lock is released
ClaimsSelected(w) ==
    LET id == workers[w].job
    IN  /\ pdf_jobs[id].status = "pending"
        /\ pdf_jobs[id].attempts < settings.max_job_attempts
        /\ pdf_jobs' = [pdf_jobs EXCEPT ![id] = [@ EXCEPT !.status = "processing", !.locked_at = TRUE, !.row_lock = NoWorker]]
        /\ pdf_jobs'[id].attempts = pdf_jobs[id].attempts
        /\ workers'[w].job = id
        /\ workers'[w].attempts = pdf_jobs[id].attempts

\* when no eligible row exists the call ends with None, and a call that ends with
\* None leaves every row as it was (a lock the call held is released)
NoneChangesNothing(w) ==
    /\ (workers[w].pc = "loop" /\ ~LimitReached(w) /\ workers'[w] # workers[w] /\ Eligible = {}) => ReturnsNone(w)
    /\ ReturnsNone(w) => /\ workers'[w].job = NoJob
                         /\ \A id \in DOMAIN pdf_jobs : pdf_jobs'[id] = [pdf_jobs[id] EXCEPT !.row_lock = IF @ = w THEN NoWorker ELSE @]

\* C15 as stated: the job claim_next_job takes is the eligible row (pending,
\* attempts < max_attempts) with the earliest created_at
C15_ClaimsEarliestPending ==
    [][\A w \in DOMAIN workers : Selects(w) =>
            /\ workers'[w].job \in Eligible
            /\ \A other \in Eligible : created_at(workers'[w].job) <= created_at(other)]_vars

\* C15: claim_next_job takes only a row that is pending with attempts <
\* max_attempts, and of these rows the earliest created one among those no
\* other transaction holds locked; it sets the row's status to 'processing' and
\* locked_at to non-null in one committed step that leaves attempts and all other
\* rows unchanged; when no eligible row exists it returns None, and a call that
\* returns None changes no row
C15_ClaimsEarliestUnlocked ==
    [][\A w \in DOMAIN workers :
            /\ Selects(w) => /\ workers'[w].job \in Eligible
                             /\ ~LockedByAnother(w, workers'[w].job)
                             /\ \A other \in Eligible : LockedByAnother(w, other) \/ created_at(workers'[w].job) <= created_at(other)
                             /\ OnlyLocks(workers'[w].job)
            /\ Commits(w) => ClaimsSelected(w)
            /\ NoneChangesNothing(w)]_vars

\* two workers hold a selected row each: the second one took the later job
\* because the earlier one was locked; and one of them has committed its claim
C15_Witness ==
    \E w1, w2 \in DOMAIN workers :
        /\ workers[w1].pc = "run"
        /\ pdf_jobs[workers[w1].job].status = "processing"
        /\ pdf_jobs[workers[w1].job].locked_at
        /\ workers[w2].pc = "selected"
        /\ pdf_jobs[workers[w2].job].row_lock = w2
        /\ created_at(workers[w2].job) > created_at(workers[w1].job)

----------------------------------------------------------------------------
\* Properties of the detectors and of the merge

Detected == text # <<>> /\ pc \in {"map", "replace", "returned"}

TransRange(k) == <<detections[k].trans_start, detections[k].trans_end>>

\* whether the ranges <<i, j>> and <<m, n>> have a position in common
Intersect(o1, o2) == o1[1] < o2[2] /\ o2[1] < o1[2]

\* C17 as stated: no two PERSON detections of the same token overlap in
\* transliterated coordinates
C17_NoOverlapSameToken ==
    Detected => \A k1, k2 \in PersonDetections :
                    (k1 # k2 /\ DetectedWord(k1) = DetectedWord(k2)) => ~Intersect(TransRange(k1), TransRange(k2))

\* C17: for each comparison token the scan resumes one character after the start
\* of the occurrence found: the detections of one token are emitted with strictly
\* increasing starts, and of two occurrences of the token that both satisfy the
\* word-boundary rule both are detected, also when they overlap
C17_ScanResumesAfterStart ==
    Detected =>
        /\ \A k1, k2 \in PersonDetections :
              (k1 < k2 /\ DetectedWord(k1) = DetectedWord(k2)) => detections[k1].trans_start < detections[k2].trans_start
        /\ \A o1, o2 \in {o \in Occurrences : Bounded(o)} :
              (Slice(transliterated, o1[1], o1[2]) = Slice(transliterated, o2[1], o2[2]) /\ Intersect(o1, o2))
                  => {o1, o2} \subseteq PersonRanges

\* two detections of one token that overlap
C17_Witness ==
    /\ Returned
    /\ \E k1, k2 \in PersonDetections :
          /\ k1 < k2
          /\ DetectedWord(k1) = DetectedWord(k2)
          /\ detections[k1].trans_start < detections[k2].trans_start
          /\ detections[k2].trans_start < detections[k1].trans_end

\* Inputs for the PHONE rule: a would-be phone number, a digit, a body and a
\* digit, alone or with a character before and after it; and two runs of digits
\* around the longest match
MaxBody == 5

BodyChars == {"1", "-", ".", "a"}

Affixes == {<<>>, <<"+">>, <<"a">>}

PhoneTexts ==
    {<<>>, Repeat("1", PHONE_BODY_MAX + 2), Repeat("1", PHONE_BODY_MAX + 3)}
        \cup {before \o <<"1">> \o b \o <<"1">> \o after :
                before \in Affixes, b \in SeqsOver(BodyChars, PHONE_BODY_MIN - 1, MaxBody), after \in {<<>>, <<"a">>}}

InitPhone == InitWith(PhoneTexts, {NoneWords}, {Transliterator})

SpecPhone == InitPhone /\ [][Next]_vars

\* the body characters the PHONE rule is stated to accept
StatedBodyChars == Digits \cup {" ", "-", "(", ")", "."}

\* s[i:j] is an optional '+', a digit, PHONE_BODY_MIN to PHONE_BODY_MAX characters
\* of the set, and a digit, with no word character right before or after it
PhoneShape(s, i, j, chars) ==
    LET first == IF Is(s, i, "+") THEN i + 1 ELSE i
    IN  /\ Holds(s, first, "\\d")
        /\ Holds(s, j - 1, "\\d")
        /\ j - first - 2 \in PHONE_BODY_MIN .. PHONE_BODY_MAX
        /\ \A q \in (first + 1) .. (j - 2) : s[q + 1] \in chars
        /\ ~Holds(s, i - 1, "\\w")
        /\ ~Holds(s, j, "\\w")

\* C18: a PHONE detection is an optional '+', a digit, 5 to 18 characters of the
\* set {digit, space, '-', '(', ')', '.'} and a digit, with no word character
\* right before or after; every such string of the transliterated text is found
\* (a PHONE detection covers at least a part of it), and no string with another
\* character in the run is a PHONE detection
C18_PhoneRuleWithDot ==
    (text # <<>> /\ pc \in {"map", "replace", "returned", "detect"} /\ transliterated # <<>>) =>
        LET s == transliterated
            found == _detect_regex(s)
            phones == {<<found[k].trans_start, found[k].trans_end>> : k \in {k \in DOMAIN found : found[k].entity_type = "PHONE"}}
        IN  /\ \A o \in phones : PhoneShape(s, o[1], o[2], StatedBodyChars)
            /\ \A i \in 0 .. Len(s), j \in 0 .. Len(s) :
                  (i < j /\ PhoneShape(s, i, j, StatedBodyChars)) => \E o \in phones : Intersect(<<i, j>>, o)

\* Inputs for _map_to_original and _merge_overlapping_spans: any list of up to
\* MaxSpans detections of two types over a text that is its own transliteration
MaxSpans == 3

MergeText == <<"a", "a", "a", "a">>

MergeDetections ==
    {Detection(entity_type, range[1], range[2]) :
        entity_type \in {"PERSON", "ID"},
        range \in {r \in (0 .. Len(MergeText)) \X (0 .. Len(MergeText)) : r[1] < r[2]}}

\* _run has detected something and is about to call _map_to_original
InitMerge ==
    /\ ProcessorIdle
    /\ WorkerIdle
    /\ text = MergeText
    /\ sensitive_words = NoneWords
    /\ transliterator = Transliterator
    /\ pc = "map"
    /\ normalized = MergeText
    /\ transliterated = MergeText
    /\ trans_to_orig = [k \in DOMAIN MergeText |-> k - 1]
    /\ detections \in SeqsOver(MergeDetections, 1, MaxSpans)
    /\ original_spans = <<>>
    /\ result = NoResult
    /\ raised = NoError
    /\ trace = [NoTrace EXCEPT !.transliterate_calls = 1 + Len(MergeText), !.detector_calls = 2]

NextMerge == MapToOriginal \/ Replace

SpecMerge == InitMerge /\ [][NextMerge]_vars

Merged == pc \in {"replace", "returned"}

\* the positions the span covers
Positions(span) == span[2] .. (span[3] - 1)

Covered(spans) == UNION {Positions(spans[k]) : k \in DOMAIN spans}

\* the spans of the list raw that lie inside the span m, by index
Inside(raw, m) == {r \in DOMAIN raw : m[2] <= raw[r][2] /\ raw[r][3] <= m[3]}

\* C19: for raw spans with start < end the merged spans are sorted by start, each
\* begins at or after the end of the one before it, every raw span lies inside
\* one merged span, and the merged spans cover exactly the positions the raw
\* spans cover
C19_MergeCoversUnion ==
    LET raw == Raw
    IN  (Merged /\ \A r \in DOMAIN raw : raw[r][2] < raw[r][3]) =>
            /\ \A i \in DOMAIN original_spans : original_spans[i][2] < original_spans[i][3]
            /\ \A i \in 1 .. (Len(original_spans) - 1) : original_spans[i][3] <= original_spans[i + 1][2]
            /\ \A r \in DOMAIN raw : Cardinality({i \in DOMAIN original_spans : r \in Inside(raw, original_spans[i])}) = 1
            /\ Covered(original_spans) = Covered(raw)

\* three raw spans, given out of order, of which two merge although neither
\* contains the other, and the third only touches the merged span
C19_Witness ==
    /\ Merged
    /\ Len(Raw) = 3
    /\ Len(original_spans) = 2
    /\ original_spans[1][3] = original_spans[2][2]
    /\ Raw[1][2] > Raw[2][2]
    /\ \A r \in DOMAIN Raw : Raw[r] \notin {original_spans[1], original_spans[2]} \/ Raw[r][2] = original_spans[2][2]

\* r comes before q in the order of the merge: by start ascending, then by end
\* descending, and among equal spans in the order the detectors emitted them
SortsBefore(raw, r, q) ==
    \/ raw[r][2] < raw[q][2]
    \/ raw[r][2] = raw[q][2] /\ raw[r][3] > raw[q][3]
    \/ raw[r][2] = raw[q][2] /\ raw[r][3] = raw[q][3] /\ r <= q

\* the span that sorts first in the overlap group of the merged span m
FirstSorted(raw, m) == CHOOSE r \in Inside(raw, m) : \A q \in Inside(raw, m) : SortsBefore(raw, r, q)

\* C20: a merged span has the entity type of the raw span of its overlap group
\* that sorts first by (start ascending, end descending), and the artifact
\* written for the region has this type: the types of the other spans of the
\* group appear in no artifact for the region
C20_FirstSortedTypeKept ==
    LET raw == Raw
    IN  /\ pc = "replace" => \A i \in DOMAIN original_spans : original_spans[i][1] = raw[FirstSorted(raw, original_spans[i])][1]
        /\ (Returned /\ detections # <<>>) =>
              /\ Len(Artifacts) = Len(original_spans)
              /\ \A i \in DOMAIN original_spans :
                    LET kept == raw[FirstSorted(raw, original_spans[i])][1]
                    IN  /\ original_spans[i][1] = kept
                        /\ Artifacts[i].type = kept
                        /\ IsPrefix(TypeName(kept) \o <<"_">>, Artifacts[i].replacement)

\* a merged span of two raw spans of different types, of which the one emitted
\* later sorts first and gives the type
C20_Witness ==
    /\ Returned
    /\ \E i \in DOMAIN original_spans :
          LET first == FirstSorted(Raw, original_spans[i])
          IN  /\ first > 1
              /\ \E r \in Inside(Raw, original_spans[i]) : r < first /\ Raw[r][1] # Raw[first][1]
              /\ Artifacts[i].type = Raw[first][1]


----------------------------------------------------------------------------
(* Span mapping: one detection against a mapping.                          *)

\* Inputs for _detection_to_original_span: a text of up to MaxMapLen
\* characters whose transliteration has up to MaxMapLen characters, any
\* non-decreasing mapping between the two, and one detection whose indices
\* may lie outside the mapping
MaxMapLen == 3

\* _run is about to call _map_to_original with one detection
InitSpanInputs ==
    /\ ProcessorIdle
    /\ WorkerIdle
    /\ \E original_length \in 1 .. MaxMapLen, n \in 0 .. MaxMapLen :
          /\ text = Repeat("1", original_length)
          /\ normalized = Repeat("1", original_length)
          /\ transliterated = Repeat("1", n)
          /\ trans_to_orig \in {m \in [1 .. n -> 0 .. (original_length - 1)] :
                                    \A k \in 1 .. (n - 1) : m[k] <= m[k + 1]}
          /\ trace = [NoTrace EXCEPT !.transliterate_calls = 1 + original_length,
                                     !.detector_calls = 2]
    /\ sensitive_words = NoneWords
    /\ transliterator = Transliterator
    /\ pc = "map"
    /\ \E trans_start \in 0 .. (MaxMapLen + 1), trans_end \in 0 .. (MaxMapLen + 2) :
          detections = <<Detection("ID", trans_start, trans_end)>>
    /\ original_spans = <<>>
    /\ result = NoResult
    /\ raised = NoError

\* a call of anonymize with any capability, or the step 4 of a call on the
\* inputs above
InitSpan == InitCap \/ InitSpanInputs

SpecSpan == InitSpan /\ [][Next]_vars

\* the detection is dropped by _detection_to_original_span
Discarded(d, mapping) == d.trans_start >= Len(mapping) \/ d.trans_end < 1

\* what the detectors produce on a mapping with one entry per character of
\* the transliterated text: a non-empty match inside that text
DetectorProduced(d, mapping) == 0 <= d.trans_start /\ d.trans_start < d.trans_end /\ d.trans_end <= Len(mapping)

\* orig_start and orig_end as stated, read from the mapping (0-based)
StatedStart(d, mapping) == mapping[d.trans_start + 1]
StatedEnd(d, mapping) == mapping[Min(d.trans_end - 1, Len(mapping) - 1) + 1] + 1

RECURSIVE StatedSpans(_, _)
\* the stated span of every detection that is not discarded, in order
StatedSpans(ds, mapping) ==
    IF ds = <<>> THEN <<>>
    ELSE (IF Discarded(Head(ds), mapping) THEN <<>>
          ELSE << <<Head(ds).entity_type, StatedStart(Head(ds), mapping), StatedEnd(Head(ds), mapping)>> >>)
         \o StatedSpans(Tail(ds), mapping)

\* C21: once step 4 has run, the merged spans are those of the detections that
\* are not discarded, a detection being discarded iff trans_start >= len(mapping)
\* or trans_end < 1 and mapped otherwise to mapping[trans_start] and
\* mapping[min(trans_end - 1, len(mapping) - 1)] + 1; a lone detection leaves
\* no span iff it is discarded; and every detection that is a non-empty match
\* inside the transliterated text maps to 0 <= orig_start < orig_end <=
\* len(normalized).
C21_SpanMapping ==
    Merged =>
        /\ original_spans = _merge_overlapping_spans(StatedSpans(detections, trans_to_orig))
        /\ Len(detections) = 1 =>
              /\ (original_spans = <<>>) <=> Discarded(detections[1], trans_to_orig)
              /\ ~Discarded(detections[1], trans_to_orig) =>
                    original_spans = << <<detections[1].entity_type,
                                          StatedStart(detections[1], trans_to_orig),
                                          StatedEnd(detections[1], trans_to_orig)>> >>
        /\ \A k \in DOMAIN detections :
              DetectorProduced(detections[k], trans_to_orig) =>
                  /\ ~Discarded(detections[k], trans_to_orig)
                  /\ 0 <= StatedStart(detections[k], trans_to_orig)
                  /\ StatedStart(detections[k], trans_to_orig) < StatedEnd(detections[k], trans_to_orig)
                  /\ StatedEnd(detections[k], trans_to_orig) <= Len(normalized)

\* a detection reaching past the end of a mapping that repeats a position has
\* been mapped, clamped to the last entry
C21_Witness ==
    /\ Merged
    /\ trans_to_orig = <<0, 0, 2>>
    /\ detections = <<Detection("ID", 1, 5)>>
    /\ original_spans = << <<"ID", 0, 3>> >>

\* a detection has been discarded for trans_end < 1
DiscardedForEnd ==
    /\ Merged
    /\ trans_to_orig = <<0, 0, 2>>
    /\ detections = <<Detection("ID", 0, 0)>>
    /\ original_spans = <<>>

\* a detection has been discarded for trans_start >= len(mapping)
DiscardedForStart ==
    /\ Merged
    /\ trans_to_orig = <<0, 1>>
    /\ detections = <<Detection("ID", 2, 3)>>
    /\ original_spans = <<>>


----------------------------------------------------------------------------
(* The artifacts and the rewritten text of _replace.                       *)

\* the key of merged span i
KeyOfSpan(i) == SpanKey(normalized, original_spans[i])

\* the merged spans that are the first with their key
FirstWithKey == {j \in DOMAIN original_spans : \A h \in 1 .. (j - 1) : KeyOfSpan(h) # KeyOfSpan(j)}

\* the placeholder assigned to the key of span i: its type and the number of
\* keys of that type first met at or before the first span with this key
AssignedTo(i) ==
    LET first == CHOOSE j \in FirstWithKey : KeyOfSpan(j) = KeyOfSpan(i)
    IN  Placeholder(original_spans[i][1],
                    Cardinality({j \in FirstWithKey :
                                    j <= first /\ original_spans[j][1] = original_spans[i][1]}))

\* C22: a returned result has one artifact per merged span, in the order of the
\* spans, which is left to right; artifact i has the type of span i, its
\* original is normalized[orig_start:orig_end] of span i, and its replacement
\* is the placeholder assigned to the (type, value) key of span i.
C22_OneArtifactPerSpan ==
    Returned =>
        /\ Len(Artifacts) = Len(original_spans)
        /\ \A i \in 1 .. (Len(original_spans) - 1) : original_spans[i][3] <= original_spans[i + 1][2]
        /\ \A i \in DOMAIN original_spans :
              /\ Artifacts[i].type = original_spans[i][1]
              /\ Artifacts[i].original = Slice(normalized, original_spans[i][2], original_spans[i][3])
              /\ Artifacts[i].replacement = AssignedTo(i)

\* two spans have been replaced, and the original of the second is a letter
\* that the transliterated text spells with two other letters
C22_Witness ==
    /\ Returned
    /\ Len(original_spans) = 2
    /\ Artifacts[2].original = <<"U+0429">>
    /\ Slice(transliterated, detections[2].trans_start, detections[2].trans_end) = <<"s", "c">>
    /\ Artifacts[2].replacement = Placeholder("PERSON", 2)


\* _replace has rewritten the text
Replaced == Returned /\ detections # <<>>

RECURSIVE LeftToRight(_, _)
\* the normalized text from position pos on, with span i and the spans after
\* it each replaced by the placeholder of its artifact
LeftToRight(pos, i) ==
    IF i > Len(original_spans) THEN Slice(normalized, pos, Len(normalized))
    ELSE Slice(normalized, pos, original_spans[i][2]) \o Artifacts[i].replacement
             \o LeftToRight(original_spans[i][3], i + 1)

\* the positions of the normalized text that lie in no merged span
OutsideSpans ==
    {p \in 0 .. (Len(normalized) - 1) :
        \A i \in DOMAIN original_spans : p < original_spans[i][2] \/ original_spans[i][3] <= p}

\* the positions of the anonymized text that hold a character of the original
Kept == {k \in DOMAIN trace.origin : trace.origin[k] # -1}

\* C23: after the right-to-left rewrite the anonymized text is, left to right,
\* the normalized text between the spans and the placeholder of each span; the
\* characters of the normalized text outside the spans are all there, unchanged
\* and in their order, and no character inside a span is.
C23_RewriteLeftToRight ==
    Replaced =>
        /\ result.anonymized_text = LeftToRight(0, 1)
        /\ Surviving = OutsideSpans
        /\ \A k \in Kept : result.anonymized_text[k] = normalized[trace.origin[k] + 1]
        /\ \A k, l \in Kept : k < l => trace.origin[k] < trace.origin[l]

\* two spans with text before the first and between the two have been
\* replaced by placeholders longer than the first span
C23_Witness ==
    /\ Replaced
    /\ Len(original_spans) = 2
    /\ original_spans[1][2] > 0
    /\ original_spans[1][3] < original_spans[2][2]
    /\ Len(Artifacts[1].replacement) > original_spans[1][3] - original_spans[1][2]
    /\ Cardinality(Kept) = Cardinality(OutsideSpans)
    /\ Len(result.anonymized_text) > Len(normalized)


----------------------------------------------------------------------------
(* The reconciliation branch of _transliterate_with_mapping.               *)

\* the mapping has been built by aligning the two transliterations
Reconciled == pc \notin {"start", "raised"} /\ trace.branch = "reconcile"

\* the 'equal' runs among the opcodes ops
EqualRuns(ops) == {k \in DOMAIN ops : ops[k][1] = "equal"}

\* C24: in the reconciliation branch every position j of the whole-string
\* transliteration that lies in an 'equal' run has mapping[j] = perCharMap[k],
\* k being the position of the per-character transliteration aligned with j:
\* the monotonicity enforcement leaves the positions of the equal runs alone.
C24_EqualRunsMapOneToOne ==
    Reconciled =>
        LET per == _transliterate_per_character(transliterator, normalized)
            ops == get_opcodes(transliterated, per.str)
        IN  \A r \in EqualRuns(ops) :
                \A j \in ops[r][2] .. (ops[r][3] - 1) :
                    /\ transliterated[j + 1] = per.str[ops[r][4] + (j - ops[r][2]) + 1]
                    /\ trans_to_orig[j + 1] = per.trans_to_orig[ops[r][4] + (j - ops[r][2]) + 1]

\* an equal run that follows a run of another kind is aligned with positions
\* of the per-character transliteration other than its own
C24_Witness ==
    /\ Reconciled
    /\ LET per == _transliterate_per_character(transliterator, normalized)
           ops == get_opcodes(transliterated, per.str)
       IN  \E r \in EqualRuns(ops) :
               /\ r > 1
               /\ ops[r][2] > 0
               /\ ops[r][2] # ops[r][4]
               /\ trans_to_orig[ops[r][2] + 1] = per.trans_to_orig[ops[r][4] + 1]
               /\ trans_to_orig[ops[r][2] + 1] > trans_to_orig[ops[r][2]]


----------------------------------------------------------------------------
\* Properties of the poll loop of Worker.run

RECURSIVE HandedOver(_)
\* how often the jobs 1 .. n were handed to the processor
HandedOver(n) == IF n = 0 THEN 0 ELSE history[n] + HandedOver(n - 1)

\* the worker w takes a step
Steps(w) == workers'[w] # workers[w]

\* a poll of w ends without a job: no row changes but for a lock that w gives
\* up, and w has no job and has run no more jobs than before
PollClaimedNothing(w) ==
    /\ workers[w].pc \in {"loop", "selected"}
    /\ workers'[w].job = NoJob
    /\ workers'[w].jobs_done = workers[w].jobs_done
    /\ history' = history
    /\ \A id \in DOMAIN pdf_jobs :
          /\ pdf_jobs'[id].status = pdf_jobs[id].status
          /\ pdf_jobs'[id].attempts = pdf_jobs[id].attempts
          /\ pdf_jobs'[id].row_lock # w

\* C25: a poll of Worker.run ends with a job selected or claimed, with the sleep,
\* or, the limit max_jobs being reached, with the end of the loop, and never
\* with an exception, so that a database error while a job is claimed leads to
\* the sleep; the worker sleeps only after a poll that claimed no job, and polls
\* again after the sleep; and when the loop ends for max_jobs = n the worker has
\* run n jobs, n being the number of jobs handed over if it is the only worker.
C25_ClaimErrorMeansNoJob ==
    /\ [](\A w \in DOMAIN workers :
             workers[w].max_jobs # NoLimit =>
                /\ workers[w].jobs_done <= workers[w].max_jobs
                /\ workers[w].pc \in {"selected", "run", "sleep"} => workers[w].jobs_done < workers[w].max_jobs)
    /\ [][\A w \in DOMAIN workers :
          /\ (Steps(w) /\ workers[w].pc \in {"loop", "selected"}) =>
                \/ workers'[w].pc \in {"selected", "run", "sleep"}
                \/ workers'[w].pc = "stopped" /\ LimitReached(w)
          /\ (Steps(w) /\ workers'[w].pc = "sleep") => PollClaimedNothing(w)
          /\ (Steps(w) /\ workers[w].pc = "sleep") =>
                /\ workers'[w] = [workers[w] EXCEPT !.pc = "loop"]
                /\ pdf_jobs' = pdf_jobs
          /\ (Steps(w) /\ workers'[w].pc = "stopped") =>
                /\ workers[w].max_jobs # NoLimit
                /\ workers'[w].jobs_done = workers[w].max_jobs
                /\ DOMAIN workers = {w} => HandedOver(Len(pdf_jobs)) = workers[w].max_jobs
      ]_vars

\* the only worker has run a job and sleeps although a job can be claimed: its
\* last poll failed in the database
C25_Witness ==
    /\ DOMAIN workers = {"w1"}
    /\ workers["w1"].pc = "sleep"
    /\ workers["w1"].jobs_done = 1
    /\ workers["w1"].max_jobs = 2
    /\ Claimable("w1") # {}


----------------------------------------------------------------------------
\* The job queue under fair scheduling

\* Every step of a started worker is taken in the end: time.sleep returns, the
\* processor returns or raises, a repository call ends (weak fairness); and the
\* statements of claim_next_job, which Worker.run tries again after each
\* failure, succeed in the end (strong fairness)
FairWorker(w) ==
    /\ WF_vars(w \in DOMAIN workers /\ Sleep(w))
    /\ WF_vars(w \in DOMAIN workers /\ ClaimNone(w))
    /\ WF_vars(w \in DOMAIN workers /\ Process(w))
    /\ WF_vars(w \in DOMAIN workers /\ MarkDone(w))
    /\ WF_vars(w \in DOMAIN workers /\ HandleFailure(w))
    /\ WF_vars(w \in DOMAIN workers /\ Finish(w))
    /\ SF_vars(w \in DOMAIN workers /\ Select(w))
    /\ SF_vars(w \in DOMAIN workers /\ ClaimCommit(w))

SpecWorkerFair == InitWorker /\ [][NextWorker]_vars /\ \A w \in Workers : FairWorker(w)

\* the worker w is in its loop and has jobs left to run
Polling(w) == w \in DOMAIN workers /\ workers[w].pc = "loop" /\ ~LimitReached(w)

\* no repository call of _handle_failure has failed
NoneCrashed == \A w \in DOMAIN workers : workers[w].pc # "crashed"

\* the job id waits for a worker
Waiting(id) ==
    /\ id \in DOMAIN pdf_jobs
    /\ pdf_jobs[id].status = "pending"
    /\ pdf_jobs[id].attempts < settings.max_job_attempts

Claimed(id) == id \in DOMAIN pdf_jobs /\ pdf_jobs[id].status = "processing"

Terminal(id) == id \in DOMAIN pdf_jobs /\ pdf_jobs[id].status \in {"done", "failed"}

\* JobRunner.run returns for w in this step
RunReturns(w) == workers[w].pc # "ran" /\ workers'[w].pc = "ran"

\* C26: if a worker keeps polling and no repository call of _handle_failure
\* fails, every job that is pending with attempts < max_job_attempts is claimed
\* in the end and is 'done' or 'failed' in the end; and when JobRunner.run
\* returns, its job is not 'processing'.
C26_QueueLiveness ==
    /\ [][\A w \in DOMAIN workers : RunReturns(w) => pdf_jobs'[workers[w].job].status # "processing"]_vars
    /\ \A id \in 1 .. NumJobs :
          ([]NoneCrashed /\ \E w \in Workers : []<>Polling(w)) =>
              /\ Waiting(id) ~> Claimed(id)
              /\ Waiting(id) ~> Terminal(id)


\* a job that failed once and was put back has been claimed again and is done,
\* with a worker that still runs and no worker crashed
C26_Witness ==
    /\ NoneCrashed
    /\ \E w \in DOMAIN workers : workers[w].max_jobs = NoLimit /\ workers[w].pc = "loop"
    /\ \E id \in DOMAIN pdf_jobs :
          /\ pdf_jobs[id].status = "done"
          /\ pdf_jobs[id].attempts = 1
          /\ history[id] = 2


----------------------------------------------------------------------------
\* Properties of concurrent claims

\* the workers to which claim_next_job returned the job id and whose JobRunner.run
\* has not yet ended its mark_done, mark_failed or increment_attempts
Holders(id) ==
    {w \in DOMAIN workers : /\ workers[w].job = id
                            /\ workers[w].pc \in {"run", "mark_done", "handle_failure", "crashed"}}

\* the workers whose claim_next_job has selected the job id and not yet committed
Selectors(id) == {w \in DOMAIN workers : workers[w].job = id /\ workers[w].pc = "selected"}

\* C27: with several workers claiming on connections of their own, a job is
\* held by at most one worker between its claim and the mark_done, mark_failed
\* or increment_attempts that follows; while it is held it is 'processing' and
\* no other worker has it selected.
C27_OneHolderPerJob ==
    \A id \in DOMAIN pdf_jobs :
        /\ Cardinality(Holders(id) \cup Selectors(id)) <= 1
        /\ Holders(id) # {} => pdf_jobs[id].status = "processing" /\ pdf_jobs[id].row_lock = NoWorker
        /\ \A w \in Selectors(id) : pdf_jobs[id].status = "pending" /\ pdf_jobs[id].row_lock = w

\* a worker has put a job back with increment_attempts and, before its
\* JobRunner.run has returned to the loop, the other worker has claimed the job
C27_Witness ==
    /\ DOMAIN workers = Workers
    /\ \E id \in DOMAIN pdf_jobs :
          /\ workers["w1"].job = id
          /\ workers["w1"].pc = "ran"
          /\ workers["w1"].calls = <<"process", "increment_attempts">>
          /\ Holders(id) = {"w2"}
          /\ history[id] = 1


----------------------------------------------------------------------------
\* Bounded retries

\* the row of the job id was given up before the workers started and has not
\* been touched since
GivenUpBefore(id) ==
    /\ pdf_jobs[id].attempts = settings.max_job_attempts
    /\ pdf_jobs[id].status = "pending"
    /\ history[id] = 0

\* C28: a job that started with attempts = 0 has been handed to the processor
\* at most max_job_attempts times, once more at most than its attempts count,
\* and its attempts are at most max_job_attempts - 1; a job that is 'done' or
\* 'failed' is not selected by a claim, is not handed to the processor, and its
\* row does not change.
C28_BoundedRetries ==
    /\ [](\A id \in DOMAIN pdf_jobs :
             \/ GivenUpBefore(id)
             \/ /\ history[id] <= settings.max_job_attempts
                /\ history[id] <= pdf_jobs[id].attempts + 1
                /\ pdf_jobs[id].attempts <= settings.max_job_attempts - 1)
    /\ [][\A id \in DOMAIN pdf_jobs :
             pdf_jobs[id].status \in {"done", "failed"} =>
                /\ pdf_jobs'[id] = pdf_jobs[id]
                /\ history'[id] = history[id]
                /\ \A w \in DOMAIN workers :
                      workers'[w].job = id => workers[w].job = id /\ workers'[w].pc \notin {"selected", "run"}
      ]_vars

\* a job was handed to the processor max_job_attempts = 2 times and is
\* 'failed', with one attempt counted; the worker has polled again since and
\* sleeps for want of a job
C28_Witness ==
    /\ settings.max_job_attempts = 2
    /\ DOMAIN workers = {"w1"}
    /\ workers["w1"].pc = "sleep"
    /\ workers["w1"].jobs_done = 2
    /\ \E id \in DOMAIN pdf_jobs :
          /\ pdf_jobs[id].status = "failed"
          /\ pdf_jobs[id].attempts = 1
          /\ history[id] = 2


----------------------------------------------------------------------------
(* The placeholders of one call.                                           *)

\* C29: within one call two artifacts have the same replacement if and only if
\* they have the same entity type and the same trimmed, lowercased original:
\* one placeholder per (type, value) key, and no placeholder for two keys.
C29_PlaceholdersBijective ==
    Returned =>
        \A i, j \in DOMAIN Artifacts :
            (Artifacts[i].replacement = Artifacts[j].replacement)
                <=> (Artifacts[i].type = Artifacts[j].type /\ ValueOf(i) = ValueOf(j))

\* two spellings of a value share a placeholder, and a value of another type
\* has a placeholder of its own with the same number
C29_Witness ==
    /\ Returned
    /\ \E i, j, k \in DOMAIN Artifacts :
          /\ Artifacts[i].original # Artifacts[j].original
          /\ Artifacts[i].replacement = Artifacts[j].replacement
          /\ Artifacts[i].replacement = Placeholder("PERSON", 1)
          /\ Artifacts[k].replacement = Placeholder("ID", 1)


----------------------------------------------------------------------------
(* Runs of digits that the PHONE rule and the ID rule both match.          *)

\* Inputs: a run of 6, 7, 20 or 21 digits, alone, in brackets, after a sign or
\* another number, inside a word, or as the local part or the domain of an
\* e-mail address; with no dictionary or with the 7-digit run as a word
DigitTexts ==
    LET RunLengths == {ID_MIN, PHONE_BODY_MIN + 2, ID_MAX, ID_MAX + 1}
        Befores == {<<>>, <<" ">>, <<"+">>, <<"(">>, <<"a">>, <<"a", "@">>, <<"2", " ">>}
        Afters == {<<>>, <<" ">>, <<")">>, <<"-">>, <<"a">>, <<".", "a", "a">>, <<"@", "b", ".", "a", "a">>}
    IN  {<<>>} \cup {before \o Repeat("1", n) \o after : before \in Befores, n \in RunLengths, after \in Afters}

InitDigits ==
    InitWith(DigitTexts, {NoneWords, Words(<<Repeat("1", PHONE_BODY_MIN + 2)>>)}, {Transliterator})

SpecDigits == InitDigits /\ [][Next]_vars

\* the place of an entity type in the order in which the detections are emitted
EmissionRank(entity_type) ==
    CASE entity_type = "PERSON" -> 1
      [] entity_type = "EMAIL" -> 2
      [] entity_type = "PHONE" -> 3
      [] entity_type = "ID" -> 4

\* the raw spans k < l are the same span of the original text
Identical(raw, k, l) == k < l /\ raw[k][2] = raw[l][2] /\ raw[k][3] = raw[l][3]

\* no raw span of the group of the merged span m starts before the raw span k,
\* or where it starts and ends later, or is the same span emitted earlier
LeadsGroup(raw, m, k) == FirstSorted(raw, m) = k

\* the unpunctuated runs of 7 to 20 digits bounded by non-word characters, as
\* <<start, end>> in the normalized text
DigitRuns ==
    {run \in (0 .. Len(normalized)) \X (0 .. Len(normalized)) :
        /\ run[2] - run[1] \in (PHONE_BODY_MIN + 2) .. ID_MAX
        /\ \A p \in run[1] .. (run[2] - 1) : IsDigit(normalized[p + 1])
        /\ ~Holds(normalized, run[1] - 1, "\\w")
        /\ ~Holds(normalized, run[2], "\\w")}

\* the merged spans that cover the run
CoveringRun(run) == {i \in DOMAIN original_spans : original_spans[i][2] <= run[1] /\ run[2] <= original_spans[i][3]}

\* C30 as stated: of two detections that map to the identical original span the
\* one emitted first gives the surviving type, and a run of 7 to 20 digits
\* bounded by non-word characters always produces a PHONE artifact.
C30_DigitRunAlwaysPhone ==
    Replaced =>
        LET raw == Raw
        IN  /\ \A k, l \in DOMAIN raw :
                  (Identical(raw, k, l) /\ \A h \in 1 .. (k - 1) : ~Identical(raw, h, k)) =>
                      \A i \in DOMAIN original_spans :
                          k \in Inside(raw, original_spans[i]) => original_spans[i][1] = raw[k][1]
            /\ \A run \in DigitRuns :
                  \E i \in CoveringRun(run) : Artifacts[i].type = "PHONE"

\* C30: the detections are emitted in the order PERSON, EMAIL, PHONE, ID; of two
\* detections that map to the identical original span the one emitted first
\* gives the surviving type when no other span sorts before it in the group
\* that is merged; and a run of 7 to 20 digits bounded by non-word characters
\* lies in one artifact, which is never an ID artifact: it is a PHONE artifact
\* unless a dictionary or e-mail detection of the group gives it its type.
C30_DigitRunNeverId ==
    Replaced =>
        LET raw == Raw
        IN  /\ \A k, l \in DOMAIN detections :
                  k < l => EmissionRank(detections[k].entity_type) <= EmissionRank(detections[l].entity_type)
            /\ \A k, l \in DOMAIN raw :
                  Identical(raw, k, l) =>
                      \A i \in DOMAIN original_spans :
                          LeadsGroup(raw, original_spans[i], k) =>
                              /\ original_spans[i][1] = raw[k][1]
                              /\ Artifacts[i].type = raw[k][1]
            /\ \A run \in DigitRuns :
                  /\ Cardinality(CoveringRun(run)) = 1
                  /\ \A i \in CoveringRun(run) :
                        /\ Artifacts[i].type # "ID"
                        /\ \/ Artifacts[i].type = "PHONE"
                           \/ /\ Artifacts[i].type \in {"PERSON", "EMAIL"}
                              /\ \E r \in Inside(raw, original_spans[i]) : raw[r][1] = Artifacts[i].type

\* a run of 7 digits in brackets was detected by the PHONE rule and by the ID
\* rule as the same span, and its artifact is a PHONE artifact
C30_Witness ==
    /\ Replaced
    /\ normalized = <<"(">> \o Repeat("1", PHONE_BODY_MIN + 2) \o <<")">>
    /\ detections = <<Detection("PHONE", 1, PHONE_BODY_MIN + 3), Detection("ID", 1, PHONE_BODY_MIN + 3)>>
    /\ Len(Artifacts) = 1
    /\ Artifacts[1].type = "PHONE"
    /\ Artifacts[1].original = Repeat("1", PHONE_BODY_MIN + 2)

====
